---------------------------- MODULE Spec2Model ----------------------------
(***************************************************************************)
(* A model of prompt-cli's semantic pipeline: the quote-aware tokenizer,   *)
(* the regex matcher over the flag table, the styler, and the duplicates   *)
(* mode state machine of the editor.                                       *)
(*                                                                         *)
(* Strings are sequences of one-character strings; positions are 0-based   *)
(* as in the Python source (text[pos] is Ch(text, pos)).                   *)
(***************************************************************************)
EXTENDS Integers, Sequences, FiniteSets, TLC

VARIABLES
    text,              \* editor.buffer.text
    cursor_position,   \* editor.buffer.cursor_position
    mode,              \* editor._mode
    duplicates_mode,   \* editor.duplicates_mode (NoMode when None)
    lights_off,            \* editor.lexer.lights_off
    lights_off_category,   \* editor.lexer.lights_off_category ("None" when None)
    executable,        \* editor.lexer.executable (the empty string when None)
    matcher,           \* editor.lexer.matcher
    styled,            \* the styled runs last produced by lex_document
    returned,          \* the value last returned by a call of a core function (for a
                       \* validator: with the validator called)
    op                 \* history: the last command executed (see Record)

vars == <<text, cursor_position, mode, duplicates_mode, lights_off, lights_off_category,
          executable, matcher, styled, returned, op>>

---------------------------------------------------------------------------
(* Bounds of the model *)

MaxFlags == 4

MaxLen == 5

MaxWords == 4

MaxChoices == 3

---------------------------------------------------------------------------
(* Characters and string helpers *)

SP == " "
TAB == "\t"
DQ == "\""
SQ == "'"
BS == "\\"

Ch(s, pos) == s[pos + 1]

\* Python s[a:b] for 0 <= a, b
Slice(s, a, b) == SubSeq(s, a + 1, IF b > Len(s) THEN Len(s) ELSE b)

Contains(s, c) == \E i \in 1..Len(s) : s[i] = c

StartsWith(s, k) == Len(k) <= Len(s) /\ SubSeq(s, 1, Len(k)) = k

RECURSIVE Flatten(_)
Flatten(ss) == IF ss = <<>> THEN <<>> ELSE Head(ss) \o Flatten(Tail(ss))

\* sep.join(parts)
RECURSIVE Join(_, _)
Join(sep, parts) ==
    IF parts = <<>> THEN <<>>
    ELSE IF Len(parts) = 1 THEN parts[1]
    ELSE parts[1] \o sep \o Join(sep, Tail(parts))

Min(a, b) == IF a < b THEN a ELSE b
Max(a, b) == IF a > b THEN a ELSE b

---------------------------------------------------------------------------
(* core/tokenizer.py *)

\* Token.__post_init__: an empty raw falls back to the value
Token(value, start, end, quote_type, raw) ==
    [value |-> value, start |-> start, end |-> end, quote_type |-> quote_type,
     raw |-> IF raw = <<>> THEN value ELSE raw]

\* Tokenizer._skip_whitespace: the position after the run of separators at pos
RECURSIVE SkipWhitespace(_, _)
SkipWhitespace(s, pos) ==
    IF pos < Len(s) /\ Ch(s, pos) \in {SP, TAB} THEN SkipWhitespace(s, pos + 1) ELSE pos

\* the scanning loop of Tokenizer._parse_quoted, pos after the opening quote
RECURSIVE QuotedLoop(_, _, _, _)
QuotedLoop(s, pos, quote_char, value_parts) ==
    IF pos >= Len(s) THEN [pos |-> pos, value |-> value_parts]
    ELSE LET char == Ch(s, pos) IN
         IF char = BS
         THEN IF pos + 1 < Len(s) /\ Ch(s, pos + 1) \in {quote_char, BS}
              THEN QuotedLoop(s, pos + 2, quote_char, Append(value_parts, Ch(s, pos + 1)))
              ELSE QuotedLoop(s, pos + 1, quote_char, Append(value_parts, char))
         ELSE IF char = quote_char
         THEN [pos |-> pos + 1, value |-> value_parts]
         ELSE QuotedLoop(s, pos + 1, quote_char, Append(value_parts, char))

\* a _parse_quoted that keeps as raw the text between the quotes
ParseQuoted_inner(s, start, quote_char) ==
    LET r == QuotedLoop(s, start + 1, quote_char, <<>>) IN
    Token(r.value, start, r.pos,
          IF quote_char = DQ THEN "DOUBLE" ELSE "SINGLE",
          r.value)

ParseQuoted(s, start, quote_char) ==
    LET r == QuotedLoop(s, start + 1, quote_char, <<>>) IN
    Token(r.value, start, r.pos,
          IF quote_char = DQ THEN "DOUBLE" ELSE "SINGLE",
          Slice(s, start, r.pos))

\* an embedded quoted section that also ends at a separator
RECURSIVE EmbeddedLoop_to_space(_, _, _, _)
EmbeddedLoop_to_space(s, pos, quote_char, value_parts) ==
    IF pos >= Len(s) THEN [pos |-> pos, value |-> value_parts]
    ELSE LET inner_char == Ch(s, pos) IN
         IF inner_char \in {SP, TAB}
         THEN [pos |-> pos, value |-> value_parts]
         ELSE IF inner_char = quote_char
         THEN [pos |-> pos + 1, value |-> value_parts]
         ELSE EmbeddedLoop_to_space(s, pos + 1, quote_char, Append(value_parts, inner_char))

\* the embedded quoted section inside Tokenizer._parse_unquoted
RECURSIVE EmbeddedLoop(_, _, _, _)
EmbeddedLoop(s, pos, quote_char, value_parts) ==
    IF pos >= Len(s) THEN [pos |-> pos, value |-> value_parts]
    ELSE LET inner_char == Ch(s, pos) IN
         IF inner_char = BS
         THEN IF pos + 1 < Len(s) /\ Ch(s, pos + 1) \in {quote_char, BS}
              THEN EmbeddedLoop(s, pos + 2, quote_char, Append(value_parts, Ch(s, pos + 1)))
              ELSE EmbeddedLoop(s, pos + 1, quote_char, Append(value_parts, inner_char))
         ELSE IF inner_char = quote_char
         THEN [pos |-> pos + 1, value |-> value_parts]
         ELSE EmbeddedLoop(s, pos + 1, quote_char, Append(value_parts, inner_char))

\* the scanning loop of Tokenizer._parse_unquoted
RECURSIVE UnquotedLoop(_, _, _, _)
UnquotedLoop(s, pos, value_parts, has_embedded_quote) ==
    IF pos >= Len(s)
    THEN [pos |-> pos, value |-> value_parts, has |-> has_embedded_quote]
    ELSE LET char == Ch(s, pos) IN
         IF char \in {SP, TAB}
         THEN [pos |-> pos, value |-> value_parts, has |-> has_embedded_quote]
         ELSE IF char = BS
         THEN IF pos + 1 < Len(s) /\ Ch(s, pos + 1) \in {SP, TAB, BS, SQ, DQ}
              THEN UnquotedLoop(s, pos + 2, Append(value_parts, Ch(s, pos + 1)),
                                has_embedded_quote)
              ELSE UnquotedLoop(s, pos + 1, Append(value_parts, char), has_embedded_quote)
         ELSE IF char \in {DQ, SQ}
         THEN LET r == EmbeddedLoop(s, pos + 1, char, value_parts) IN
              UnquotedLoop(s, r.pos, r.value, TRUE)
         ELSE UnquotedLoop(s, pos + 1, Append(value_parts, char), has_embedded_quote)

ParseUnquoted(s, start) ==
    LET r == UnquotedLoop(s, start, <<>>, FALSE)
        raw == Slice(s, start, r.pos)
        quote_type == IF r.has
                      THEN IF Contains(raw, DQ) THEN "DOUBLE"
                           ELSE IF Contains(raw, SQ) THEN "SINGLE" ELSE "NONE"
                      ELSE "NONE"
    IN Token(r.value, start, r.pos, quote_type, raw)

\* Tokenizer._parse_token (called with pos < length)
ParseToken(s, pos) ==
    IF Ch(s, pos) \in {DQ, SQ} THEN ParseQuoted(s, pos, Ch(s, pos)) ELSE ParseUnquoted(s, pos)

\* the loop of Tokenizer.tokenize
RECURSIVE TokenizeLoop(_, _, _)
TokenizeLoop(s, pos, tokens) ==
    IF pos >= Len(s) THEN tokens
    ELSE LET p == SkipWhitespace(s, pos) IN
         IF p >= Len(s) THEN tokens
         ELSE LET token == ParseToken(s, p) IN
              TokenizeLoop(s, token.end, Append(tokens, token))

tokenize(s) == TokenizeLoop(s, 0, <<>>)

Raws(tokens) == [i \in 1..Len(tokens) |-> tokens[i].raw]

\* a detokenize that joins the values of the tokens
detokenize_values(tokens) == Join(<<SP>>, [i \in 1..Len(tokens) |-> tokens[i].value])

detokenize(tokens) == Join(<<SP>>, Raws(tokens))

---------------------------------------------------------------------------
(* core/programs.py *)

UpperCase == <<"A", "B", "C", "D", "E", "F", "G", "H", "I", "J", "K", "L", "M", "N", "O", "P", "Q", "R", "S", "T", "U", "V", "W", "X", "Y", "Z">>
LowerCase == <<"a", "b", "c", "d", "e", "f", "g", "h", "i", "j", "k", "l", "m", "n", "o", "p", "q", "r", "s", "t", "u", "v", "w", "x", "y", "z">>

\* str.lower() on a string of characters
LowerOf == [c \in {UpperCase[k] : k \in 1..26} |->
               LowerCase[CHOOSE k \in 1..26 : UpperCase[k] = c]]

LowerChar(c) == IF c \in DOMAIN LowerOf THEN LowerOf[c] ELSE c

LowerStr(s) == [i \in 1..Len(s) |-> LowerChar(s[i])]

EndsWith(s, k) == Len(k) <= Len(s) /\ SubSeq(s, Len(s) - Len(k) + 1, Len(s)) = k

\* os.path.basename: what follows the last "/"
Basename(path) ==
    LET slashes == {i \in 1..Len(path) : path[i] = "/"} IN
    IF slashes = {} THEN path
    ELSE SubSeq(path, (CHOOSE i \in slashes : \A j \in slashes : j <= i) + 1, Len(path))

BUILTIN_LAUNCHERS == <<
    [name |-> <<"c", "c", "a", "c", "h", "e">>,
     flags_with_args |-> <<>>],
    [name |-> <<"d", "i", "s", "t", "c", "c">>,
     flags_with_args |-> <<>>],
    [name |-> <<"s", "c", "c", "a", "c", "h", "e">>,
     flags_with_args |-> <<>>],
    [name |-> <<"i", "c", "e", "c", "c">>,
     flags_with_args |-> <<>>],
    [name |-> <<"c", "o", "l", "o", "r", "g", "c", "c">>,
     flags_with_args |-> <<>>],
    [name |-> <<"s", "c", "a", "n", "-", "b", "u", "i", "l", "d">>,
     flags_with_args |-> <<<<"-", "o">>, <<"-", "-", "u", "s", "e", "-", "a", "n", "a", "l", "y", "z", "e", "r">>, <<"-", "e", "n", "a", "b", "l", "e", "-", "c", "h", "e", "c", "k", "e", "r">>, <<"-", "d", "i", "s", "a", "b", "l", "e", "-", "c", "h", "e", "c", "k", "e", "r">>>>],
    [name |-> <<"b", "e", "a", "r">>,
     flags_with_args |-> <<<<"-", "o">>, <<"-", "-", "o", "u", "t", "p", "u", "t">>, <<"-", "a">>, <<"-", "-", "a", "p", "p", "e", "n", "d">>>>],
    [name |-> <<"t", "i", "m", "e">>,
     flags_with_args |-> <<<<"-", "f">>, <<"-", "o">>, <<"-", "-", "f", "o", "r", "m", "a", "t">>, <<"-", "-", "o", "u", "t", "p", "u", "t">>>>],
    [name |-> <<"e", "n", "v">>,
     flags_with_args |-> <<>>],
    [name |-> <<"n", "i", "c", "e">>,
     flags_with_args |-> <<<<"-", "n">>, <<"-", "-", "a", "d", "j", "u", "s", "t", "m", "e", "n", "t">>>>],
    [name |-> <<"i", "o", "n", "i", "c", "e">>,
     flags_with_args |-> <<<<"-", "c">>, <<"-", "n">>, <<"-", "p">>>>] >>

BUILTIN_PROGRAMS == <<
    [name |-> <<"g", "c", "c">>, patterns |-> <<
        [type |-> "suffix", pattern |-> <<"-", "g", "c", "c">>],
        [type |-> "suffix", pattern |-> <<"-", "g", "+", "+">>],
        [type |-> "exact", pattern |-> <<"g", "c", "c">>],
        [type |-> "exact", pattern |-> <<"g", "+", "+">>],
        [type |-> "exact", pattern |-> <<"c", "c">>],
        [type |-> "exact", pattern |-> <<"c", "+", "+">>],
        [type |-> "prefix", pattern |-> <<"g", "c", "c", "-">>],
        [type |-> "prefix", pattern |-> <<"g", "+", "+", "-">>]>>],
    [name |-> <<"c", "l", "a", "n", "g">>, patterns |-> <<
        [type |-> "suffix", pattern |-> <<"-", "c", "l", "a", "n", "g">>],
        [type |-> "suffix", pattern |-> <<"-", "c", "l", "a", "n", "g", "+", "+">>],
        [type |-> "exact", pattern |-> <<"c", "l", "a", "n", "g">>],
        [type |-> "exact", pattern |-> <<"c", "l", "a", "n", "g", "+", "+">>],
        [type |-> "prefix", pattern |-> <<"c", "l", "a", "n", "g", "-">>],
        [type |-> "prefix", pattern |-> <<"c", "l", "a", "n", "g", "+", "+", "-">>]>>],
    [name |-> <<"r", "u", "s", "t", "c">>, patterns |-> <<
        [type |-> "exact", pattern |-> <<"r", "u", "s", "t", "c">>]>>],
    [name |-> <<"c", "a", "r", "g", "o">>, patterns |-> <<
        [type |-> "exact", pattern |-> <<"c", "a", "r", "g", "o">>]>>],
    [name |-> <<"g", "o">>, patterns |-> <<
        [type |-> "exact", pattern |-> <<"g", "o">>]>>],
    [name |-> <<"p", "y", "t", "h", "o", "n">>, patterns |-> <<
        [type |-> "exact", pattern |-> <<"p", "y", "t", "h", "o", "n">>],
        [type |-> "exact", pattern |-> <<"p", "y", "t", "h", "o", "n", "3">>],
        [type |-> "prefix", pattern |-> <<"p", "y", "t", "h", "o", "n", "3", ".">>],
        [type |-> "exact", pattern |-> <<"p", "y", "t", "h", "o", "n", "2">>]>>],
    [name |-> <<"m", "a", "k", "e">>, patterns |-> <<
        [type |-> "exact", pattern |-> <<"m", "a", "k", "e">>],
        [type |-> "exact", pattern |-> <<"g", "m", "a", "k", "e">>],
        [type |-> "exact", pattern |-> <<"b", "m", "a", "k", "e">>]>>],
    [name |-> <<"c", "m", "a", "k", "e">>, patterns |-> <<
        [type |-> "exact", pattern |-> <<"c", "m", "a", "k", "e">>]>>],
    [name |-> <<"n", "i", "n", "j", "a">>, patterns |-> <<
        [type |-> "exact", pattern |-> <<"n", "i", "n", "j", "a">>]>>],
    [name |-> <<"l", "d">>, patterns |-> <<
        [type |-> "suffix", pattern |-> <<"-", "l", "d">>],
        [type |-> "exact", pattern |-> <<"l", "d">>],
        [type |-> "exact", pattern |-> <<"l", "d", ".", "l", "l", "d">>],
        [type |-> "exact", pattern |-> <<"l", "d", ".", "g", "o", "l", "d">>],
        [type |-> "exact", pattern |-> <<"l", "d", ".", "b", "f", "d">>]>>],
    [name |-> <<"a", "r">>, patterns |-> <<
        [type |-> "suffix", pattern |-> <<"-", "a", "r">>],
        [type |-> "exact", pattern |-> <<"a", "r">>],
        [type |-> "exact", pattern |-> <<"l", "l", "v", "m", "-", "a", "r">>]>>],
    [name |-> <<"a", "s">>, patterns |-> <<
        [type |-> "suffix", pattern |-> <<"-", "a", "s">>],
        [type |-> "exact", pattern |-> <<"a", "s">>]>>] >>

LauncherInfo(name, token_index, args_end_index) ==
    [present |-> TRUE, name |-> name, token_index |-> token_index,
     args_end_index |-> args_end_index]

\* launcher = None
NoLauncher == [present |-> FALSE]

ProgramMatch(canonical_name, matched_name, source) ==
    [present |-> TRUE, canonical_name |-> canonical_name, matched_name |-> matched_name,
     source |-> source, token_index |-> 0, launcher |-> NoLauncher]

\* the result None of detect_program / find_compiler
NoProgram == [present |-> FALSE]

PatternHits(basename_lower, pat) ==
    CASE pat.type = "exact" -> basename_lower = LowerStr(pat.pattern)
      [] pat.type = "prefix" -> StartsWith(basename_lower, LowerStr(pat.pattern))
      [] pat.type = "suffix" -> EndsWith(basename_lower, LowerStr(pat.pattern))

\* _match_builtin: the position in BUILTIN_PROGRAMS of the first program with
\* a pattern that hits, 0 for None
match_builtin(basename) ==
    LET basename_lower == LowerStr(basename)
        hits == {k \in 1..Len(BUILTIN_PROGRAMS) :
                    \E j \in 1..Len(BUILTIN_PROGRAMS[k].patterns) :
                        PatternHits(basename_lower, BUILTIN_PROGRAMS[k].patterns[j])}
    IN IF hits = {} THEN 0 ELSE CHOOSE k \in hits : \A j \in hits : k <= j

\* an alias of a program of the configuration: a glob "*X" is kept as the suffix X
AliasHits(basename, alias) ==
    CASE alias.kind = "literal" -> LowerStr(alias.pattern) = LowerStr(basename)
      [] alias.kind = "glob_suffix" -> EndsWith(LowerStr(basename), LowerStr(alias.pattern))

\* _match_config: the position in config.programs of the first program whose
\* name or alias hits, 0 for None
match_config(basename, config) ==
    LET hits == {k \in 1..Len(config.programs) :
                    \/ LowerStr(config.programs[k].name) = LowerStr(basename)
                    \/ \E j \in 1..Len(config.programs[k].aliases) :
                           AliasHits(basename, config.programs[k].aliases[j])}
    IN IF hits = {} THEN 0 ELSE CHOOSE k \in hits : \A j \in hits : k <= j

\* config = None
NoConfig == [name |-> "none", flags |-> <<>>, programs |-> <<>>]

\* detect_program
detect_program(exe, config) ==
    LET basename == Basename(exe)
        builtin_match == match_builtin(basename)
        config_match == match_config(basename, config)
    IN IF builtin_match # 0
       THEN ProgramMatch(BUILTIN_PROGRAMS[builtin_match].name, basename, "builtin")
       ELSE IF config_match # 0
       THEN ProgramMatch(config.programs[config_match].name, basename, "config")
       ELSE ProgramMatch(basename, basename, "unknown")

\* _is_launcher: the position in BUILTIN_LAUNCHERS, 0 for None (the
\* configuration has no launchers attribute)
is_launcher(basename) ==
    LET basename_lower == LowerStr(basename)
        hits == {k \in 1..Len(BUILTIN_LAUNCHERS) :
                    basename_lower = LowerStr(BUILTIN_LAUNCHERS[k].name)}
    IN IF hits = {} THEN 0 ELSE CHOOSE k \in hits : \A j \in hits : k <= j

\* the inner loop of find_compiler: the index after the launcher's arguments
\* a variant of the skip that takes every flag to have an argument
RECURSIVE SkipLauncherArgs_every_flag(_, _, _)
SkipLauncherArgs_every_flag(tokens, i, flags_with_args) ==
    IF i >= Len(tokens) THEN i
    ELSE IF StartsWith(tokens[i + 1].value, <<"-">>)
         THEN SkipLauncherArgs_every_flag(tokens, i + 2, flags_with_args)
         ELSE i

RECURSIVE SkipLauncherArgs(_, _, _)
SkipLauncherArgs(tokens, i, flags_with_args) ==
    IF i >= Len(tokens) THEN i
    ELSE LET value == tokens[i + 1].value IN
         IF StartsWith(value, <<"-">>)
         THEN LET flag_takes_arg ==
                      \E f \in 1..Len(flags_with_args) :
                          \/ value = flags_with_args[f]
                          \/ StartsWith(value, flags_with_args[f] \o <<"=">>)
              IN IF flag_takes_arg /\ ~Contains(value, "=")
                 THEN SkipLauncherArgs(tokens, i + 2, flags_with_args)
                 ELSE SkipLauncherArgs(tokens, i + 1, flags_with_args)
         ELSE i

\* a variant of the outer loop that leaves the program's token_index unset
RECURSIVE FindCompilerLoop_index_unset(_, _, _)
FindCompilerLoop_index_unset(tokens, i, launcher_info) ==
    IF i >= Len(tokens) THEN NoProgram
    ELSE LET token == tokens[i + 1]
             launcher_check == is_launcher(Basename(token.value))
         IN IF launcher_check # 0
            THEN LET end == SkipLauncherArgs(tokens, i + 1,
                                BUILTIN_LAUNCHERS[launcher_check].flags_with_args)
                 IN FindCompilerLoop_index_unset(tokens, end,
                        LauncherInfo(BUILTIN_LAUNCHERS[launcher_check].name, i, end))
            ELSE [detect_program(token.value, NoConfig) EXCEPT !.launcher = launcher_info]

\* the outer loop of find_compiler, called without a configuration
RECURSIVE FindCompilerLoop(_, _, _)
FindCompilerLoop(tokens, i, launcher_info) ==
    IF i >= Len(tokens) THEN NoProgram
    ELSE LET token == tokens[i + 1]
             launcher_check == is_launcher(Basename(token.value))
         IN IF launcher_check # 0
            THEN LET end == SkipLauncherArgs(tokens, i + 1,
                                BUILTIN_LAUNCHERS[launcher_check].flags_with_args)
                 IN FindCompilerLoop(tokens, end,
                        LauncherInfo(BUILTIN_LAUNCHERS[launcher_check].name, i, end))
            ELSE [detect_program(token.value, NoConfig) EXCEPT !.token_index = i,
                                                               !.launcher = launcher_info]

find_compiler(tokens) ==
    IF tokens = <<>> THEN NoProgram ELSE FindCompilerLoop(tokens, 0, NoLauncher)

\* " ".join(t.value for t in tokens[a:b])
JoinValues(tokens, a, b) ==
    Join(<<SP>>, [i \in 1..(b - a) |-> tokens[a + i].value])

CommandLineParts ==
    [launcher |-> <<>>, launcher_parameters |-> <<>>, program |-> <<>>,
     program_parameters |-> <<>>,
     launcher_range |-> <<0, 0>>, launcher_parameters_range |-> <<0, 0>>,
     program_range |-> <<0, 0>>, program_parameters_range |-> <<0, 0>>]

parse_command_line(tokens) ==
    LET program_match == find_compiler(tokens) IN
    IF tokens = <<>> \/ ~program_match.present THEN CommandLineParts
    ELSE LET launcher == program_match.launcher
             program_idx == program_match.token_index
             p1 == IF launcher.present
                   THEN [CommandLineParts EXCEPT
                            !.launcher = tokens[launcher.token_index + 1].value,
                            !.launcher_range =
                                <<launcher.token_index, launcher.token_index + 1>>]
                   ELSE CommandLineParts
             p2 == IF launcher.present /\ launcher.args_end_index > launcher.token_index + 1
                   THEN [p1 EXCEPT
                            !.launcher_parameters =
                                JoinValues(tokens, launcher.token_index + 1,
                                           launcher.args_end_index),
                            !.launcher_parameters_range =
                                <<launcher.token_index + 1, launcher.args_end_index>>]
                   ELSE p1
             p3 == [p2 EXCEPT !.program = tokens[program_idx + 1].value,
                              !.program_range = <<program_idx, program_idx + 1>>]
         IN IF program_idx + 1 < Len(tokens)
            THEN [p3 EXCEPT
                     !.program_parameters = JoinValues(tokens, program_idx + 1, Len(tokens)),
                     !.program_parameters_range = <<program_idx + 1, Len(tokens)>>]
            ELSE p3

---------------------------------------------------------------------------
\* config/defaults.py: the flag table.  An anchored pattern is kept as its literal
\* prefix, its ordered keyword alternatives (group 1) and the shape of its tail:
\*   ws_rest   optional whitespace, then a group taking the rest
\*   plus      a group taking the non-empty rest
\*   no_plus   an optional group "no-", then a group taking the non-empty rest
\*   opt       an optional group matching one of the alternatives in opts

K_I == <<"I">>
K_isystem == <<"i", "s", "y", "s", "t", "e", "m">>
K_idirafter == <<"i", "d", "i", "r", "a", "f", "t", "e", "r">>
K_iprefix == <<"i", "p", "r", "e", "f", "i", "x">>
K_iwithprefix == <<"i", "w", "i", "t", "h", "p", "r", "e", "f", "i", "x">>
K_iwithprefixbefore == <<"i", "w", "i", "t", "h", "p", "r", "e", "f", "i", "x", "b", "e", "f", "o", "r", "e">>
K_include_with_prefix == <<"i", "n", "c", "l", "u", "d", "e", "-", "w", "i", "t", "h", "-", "p", "r", "e", "f", "i", "x">>
K_include_with_prefix_before == <<"i", "n", "c", "l", "u", "d", "e", "-", "w", "i", "t", "h", "-", "p", "r", "e", "f", "i", "x", "-", "b", "e", "f", "o", "r", "e">>
K_include_with_prefix_after == <<"i", "n", "c", "l", "u", "d", "e", "-", "w", "i", "t", "h", "-", "p", "r", "e", "f", "i", "x", "-", "a", "f", "t", "e", "r">>
K_L == <<"L">>
K_library_path == <<"l", "i", "b", "r", "a", "r", "y", "-", "p", "a", "t", "h">>
K_l == <<"l">>
K_o == <<"o">>
K_W == <<"W">>
K_no == <<"n", "o", "-">>
K_O == <<"O">>
K_g == <<"g">>
K_s == <<"s">>
K_fast == <<"f", "a", "s", "t">>

Digits == {<<"0">>, <<"1">>, <<"2">>, <<"3">>, <<"4">>, <<"5">>, <<"6">>, <<"7">>,
           <<"8">>, <<"9">>}

Pattern(lit, kws, tail, opts) == [lit |-> lit, kws |-> kws, tail |-> tail, opts |-> opts]

Flags == <<
    [category |-> "Includes", regexps |-> <<
        Pattern(<<"-">>, <<K_I, K_isystem, K_idirafter, K_iprefix, K_iwithprefix,
                           K_iwithprefixbefore>>, "ws_rest", {}),
        Pattern(<<"-", "-">>, <<K_include_with_prefix, K_include_with_prefix_before,
                                K_include_with_prefix_after>>, "ws_rest", {}) >>],
    [category |-> "Libraries", regexps |-> <<
        Pattern(<<"-">>, <<K_L, K_library_path>>, "ws_rest", {}),
        Pattern(<<"-">>, <<K_l>>, "plus", {}) >>],
    [category |-> "Outputs", regexps |-> <<
        Pattern(<<"-">>, <<K_o>>, "ws_rest", {}) >>],
    [category |-> "Warnings", regexps |-> <<
        Pattern(<<"-">>, <<K_W>>, "no_plus", {}) >>],
    [category |-> "Optimization", regexps |-> <<
        Pattern(<<"-">>, <<K_O>>, "opt", Digits \cup {K_s, K_g, K_fast}) >>],
    [category |-> "Debug", regexps |-> <<
        Pattern(<<"-">>, <<K_g>>, "opt", Digits) >> ] >>

\* the configuration the editor loads when it is given none: no programs section
DefaultConfig == [name |-> "default", flags |-> Flags, programs |-> <<>>]

K_march == <<"m", "a", "r", "c", "h">>
K_mtune == <<"m", "t", "u", "n", "e">>

\* a programs section: program gcc with the aliases g++ and glob:*-gcc and one
\* flag of its own, category Architecture: "-", group 1 march or mtune, "=",
\* group 2 the rest
ConfigPrograms == <<
    [name |-> <<"g", "c", "c">>,
     aliases |-> <<[kind |-> "literal", pattern |-> <<"g", "+", "+">>],
                   [kind |-> "glob_suffix", pattern |-> <<"-", "g", "c", "c">>]>>,
     flags |-> <<[category |-> "Architecture", regexps |-> <<
                     Pattern(<<"-">>, <<K_march, K_mtune>>, "eq_rest", {}) >>]>>] >>

\* the default configuration with the programs section added
ProgramsConfig == [name |-> "programs", flags |-> Flags, programs |-> ConfigPrograms]

\* the configuration object a name refers to
ConfigNamed(name) == CHOOSE config \in {DefaultConfig, ProgramsConfig} : config.name = name

\* Config.get_program: the position in config.programs of the first program
\* whose name or alias hits the basename, 0 for None
get_program(config, exe) ==
    LET exe_name == Basename(exe)
        hits == {k \in 1..Len(config.programs) :
                    \/ LowerStr(config.programs[k].name) = LowerStr(exe_name)
                    \/ \E j \in 1..Len(config.programs[k].aliases) :
                           LET alias == config.programs[k].aliases[j] IN
                           CASE alias.kind = "glob_suffix" -> EndsWith(exe_name, alias.pattern)
                             [] alias.kind = "literal" ->
                                    LowerStr(alias.pattern) = LowerStr(exe_name)}
    IN IF hits = {} THEN 0 ELSE CHOOSE k \in hits : \A j \in hits : k <= j

\* Config.get_flags_for_program: the global flags, then the program's own
get_flags_for_program(config, exe) ==
    LET program == get_program(config, exe) IN
    config.flags \o (IF program # 0 THEN config.programs[program].flags ELSE <<>>)

\* the number of colors config.categories declares for a category (0: not declared)
CategoryColors(cat_lower) ==
    CASE cat_lower \in {"includes", "libraries", "outputs"} -> 2
      [] cat_lower \in {"warnings", "optimization", "debug", "architecture", "default"} -> 1
      [] OTHER -> 0

\* str.lower() on the category names in use
Lower(category) ==
    CASE category = "Includes" -> "includes"
      [] category = "Libraries" -> "libraries"
      [] category = "Outputs" -> "outputs"
      [] category = "Warnings" -> "warnings"
      [] category = "Optimization" -> "optimization"
      [] category = "Debug" -> "debug"
      [] category = "Architecture" -> "architecture"
      [] category = "Default" -> "default"
      [] category = "Executable" -> "executable"
      [] OTHER -> category

---------------------------------------------------------------------------
(* core/matcher.py *)

IsSpaceChar(c) == c \in {SP, TAB, "\n", "\r", "\f"}

RECURSIVE SkipS(_, _)
SkipS(v, p) == IF p < Len(v) /\ IsSpaceChar(Ch(v, p)) THEN SkipS(v, p + 1) ELSE p

\* every character of v[p:] is matched by "."
AllDot(v, p) == \A i \in (p + 1)..Len(v) : v[i] # "\n"

Span(a, b) == [present |-> TRUE, start |-> a, end |-> b]
NoSpan == [present |-> FALSE, start |-> 0 - 1, end |-> 0 - 1]
NoMatch == [ok |-> FALSE, spans |-> <<>>]

\* the groups after the keyword group, or NoMatch when the tail cannot match v[p:]
MatchTail(pat, v, p) ==
    LET n == Len(v) IN
    CASE pat.tail = "ws_rest" ->
            LET q == SkipS(v, p) IN
            IF AllDot(v, q) THEN [ok |-> TRUE, spans |-> <<Span(q, n)>>] ELSE NoMatch
      [] pat.tail = "plus" ->
            IF p < n /\ AllDot(v, p) THEN [ok |-> TRUE, spans |-> <<Span(p, n)>>] ELSE NoMatch
      [] pat.tail = "no_plus" ->
            IF StartsWith(Slice(v, p, n), K_no) /\ p + 3 < n /\ AllDot(v, p + 3)
            THEN [ok |-> TRUE, spans |-> <<Span(p, p + 3), Span(p + 3, n)>>]
            ELSE IF p < n /\ AllDot(v, p)
            THEN [ok |-> TRUE, spans |-> <<NoSpan, Span(p, n)>>]
            ELSE NoMatch
      [] pat.tail = "eq_rest" ->
            IF p < n /\ Ch(v, p) = "=" /\ AllDot(v, p + 1)
            THEN [ok |-> TRUE, spans |-> <<Span(p + 1, n)>>]
            ELSE NoMatch
      [] pat.tail = "opt" ->
            IF p = n THEN [ok |-> TRUE, spans |-> <<NoSpan>>]
            ELSE IF Slice(v, p, n) \in pat.opts
            THEN [ok |-> TRUE, spans |-> <<Span(p, n)>>]
            ELSE NoMatch

\* pattern.match(token.value) for the anchored pattern: alternatives in order
RECURSIVE MatchFrom(_, _, _)
MatchFrom(pat, v, k) ==
    IF k > Len(pat.kws) THEN NoMatch
    ELSE LET head == pat.lit \o pat.kws[k] IN
         IF StartsWith(v, head)
         THEN LET t == MatchTail(pat, v, Len(head)) IN
              IF t.ok
              THEN [ok |-> TRUE, spans |-> <<Span(Len(pat.lit), Len(head))>> \o t.spans]
              ELSE MatchFrom(pat, v, k + 1)
         ELSE MatchFrom(pat, v, k + 1)

RegexMatch(pat, v) == MatchFrom(pat, v, 1)

CaptureGroup(value, start, end, group_index) ==
    [value |-> value, start |-> start, end |-> end, group_index |-> group_index]

\* Matcher._extract_groups
RECURSIVE ParticipatingGroups(_, _, _)
ParticipatingGroups(spans, v, i) ==
    IF i > Len(spans) THEN <<>>
    ELSE (IF spans[i].present
          THEN <<CaptureGroup(Slice(v, spans[i].start, spans[i].end),
                              spans[i].start, spans[i].end, i)>>
          ELSE <<>>) \o ParticipatingGroups(spans, v, i + 1)

ExtractGroups(m, token) ==
    LET groups == ParticipatingGroups(m.spans, token.value, 1) IN
    IF groups = <<>>
    THEN <<CaptureGroup(token.value, 0, Len(token.value), 0)>>
    ELSE groups

\* Matcher._compile_patterns: (pattern, flag index) pairs keyed by lower-cased
\* category, categories in order of first appearance
RECURSIVE CompileFrom(_, _, _)
CompileFrom(flags, f, compiled) ==
    IF f > Len(flags) THEN compiled
    ELSE LET key == Lower(flags[f].category)
             entries == [j \in 1..Len(flags[f].regexps) |->
                            [pattern |-> flags[f].regexps[j], flag |-> f]]
             at == {c \in 1..Len(compiled) : compiled[c].key = key}
         IN IF at = {}
            THEN CompileFrom(flags, f + 1, Append(compiled, [key |-> key, patterns |-> entries]))
            ELSE LET c == CHOOSE c \in at : TRUE IN
                 CompileFrom(flags, f + 1,
                     [compiled EXCEPT ![c].patterns = compiled[c].patterns \o entries])

CompiledPatterns == CompileFrom(Flags, 1, <<>>)

AllPatterns == Flatten([c \in 1..Len(CompiledPatterns) |-> CompiledPatterns[c].patterns])

MatchResult(token, category, flag, groups, matched) ==
    [token |-> token, category |-> category, flag |-> flag, groups |-> groups,
     matched |-> matched]

\* Matcher.match_token of a matcher built from DefaultConfig, whose flags are
\* Flags whatever the executable: the first pattern that matches, else Default
\* (flag 0 is None)
RECURSIVE MatchTokenFrom(_, _)
MatchTokenFrom(token, k) ==
    IF k > Len(AllPatterns)
    THEN MatchResult(token, "Default", 0,
                     <<CaptureGroup(token.value, 0, Len(token.value), 0)>>, FALSE)
    ELSE LET m == RegexMatch(AllPatterns[k].pattern, token.value) IN
         IF m.ok
         THEN MatchResult(token, Flags[AllPatterns[k].flag].category, AllPatterns[k].flag,
                          ExtractGroups(m, token), TRUE)
         ELSE MatchTokenFrom(token, k + 1)

match_token(token) == MatchTokenFrom(token, 1)

\* Matcher.__init__: the program is detected once, from the executable given
Matcher(config, exe) ==
    [config |-> config.name,
     executable |-> exe,
     program_match |-> IF exe # <<>> THEN detect_program(exe, config) ELSE NoProgram]

\* the flags _compile_patterns compiles: those of the canonical program name
MatcherFlags(m) ==
    get_flags_for_program(ConfigNamed(m.config),
        IF m.program_match.present THEN m.program_match.canonical_name ELSE <<>>)

\* Matcher.match_token over the patterns compiled from flags
RECURSIVE MatchTokenIn(_, _, _, _)
MatchTokenIn(patterns, flags, token, k) ==
    IF k > Len(patterns)
    THEN MatchResult(token, "Default", 0,
                     <<CaptureGroup(token.value, 0, Len(token.value), 0)>>, FALSE)
    ELSE LET m == RegexMatch(patterns[k].pattern, token.value) IN
         IF m.ok
         THEN MatchResult(token, flags[patterns[k].flag].category, patterns[k].flag,
                          ExtractGroups(m, token), TRUE)
         ELSE MatchTokenIn(patterns, flags, token, k + 1)

\* a variant of match_tokens that matches the first token like the others
MatcherMatchTokens_by_pattern(m, tokens) ==
    LET flags == MatcherFlags(m)
        compiled == CompileFrom(flags, 1, <<>>)
        patterns == Flatten([c \in 1..Len(compiled) |-> compiled[c].patterns])
    IN [i \in 1..Len(tokens) |-> MatchTokenIn(patterns, flags, tokens[i], 1)]

\* Matcher.match_tokens of the matcher m
MatcherMatchTokens(m, tokens) ==
    LET flags == MatcherFlags(m)
        compiled == CompileFrom(flags, 1, <<>>)
        patterns == Flatten([c \in 1..Len(compiled) |-> compiled[c].patterns])
    IN [i \in 1..Len(tokens) |->
           IF i = 1
           THEN MatchResult(tokens[i], "Executable", 0,
                            <<CaptureGroup(tokens[i].value, 0, Len(tokens[i].value), 0)>>,
                            TRUE)
           ELSE MatchTokenIn(patterns, flags, tokens[i], 1)]

\* Matcher.match_tokens of a matcher built from DefaultConfig
match_tokens(tokens) ==
    [i \in 1..Len(tokens) |->
        IF i = 1
        THEN MatchResult(tokens[i], "Executable", 0,
                         <<CaptureGroup(tokens[i].value, 0, Len(tokens[i].value), 0)>>, TRUE)
        ELSE match_token(tokens[i])]

\* Matcher.find_duplicates: <<category, indices>> entries in dict insertion order,
\* indices 0-based
RECURSIVE CategoryIndices(_, _, _)
CategoryIndices(results, i, acc) ==
    IF i > Len(results) THEN acc
    ELSE LET r == results[i] IN
         IF r.matched /\ r.flag # 0
         THEN LET at == {c \in 1..Len(acc) : acc[c].category = r.category} IN
              IF at = {}
              THEN CategoryIndices(results, i + 1,
                       Append(acc, [category |-> r.category, indices |-> <<i - 1>>]))
              ELSE LET c == CHOOSE c \in at : TRUE IN
                   CategoryIndices(results, i + 1,
                       [acc EXCEPT ![c].indices = Append(acc[c].indices, i - 1)])
         ELSE CategoryIndices(results, i + 1, acc)

HasDuplicates(entry) == Len(entry.indices) > 1

\* a variant of find_duplicates that keeps the categories with one index
find_duplicates_unfiltered(results) == CategoryIndices(results, 1, <<>>)

find_duplicates(results) == SelectSeq(CategoryIndices(results, 1, <<>>), HasDuplicates)

---------------------------------------------------------------------------
(* editor/modes/duplicates.py *)

DuplicateGroup(category, indices) ==
    [category |-> category, indices |-> indices, selected |-> FALSE, current_index |-> 0]

\* DuplicateGroup.current_result_index
current_result_index(group) ==
    IF group.indices # <<>> THEN group.indices[group.current_index + 1] ELSE 0 - 1

\* the sort key of a group: its first index
SortKey(group) == IF group.indices # <<>> THEN group.indices[1] ELSE 0

\* list.sort (stable) by SortKey
RECURSIVE InsertSorted(_, _)
InsertSorted(sorted, g) ==
    IF sorted = <<>> THEN <<g>>
    ELSE IF SortKey(g) < SortKey(sorted[Len(sorted)])
    THEN Append(InsertSorted(SubSeq(sorted, 1, Len(sorted) - 1), g), sorted[Len(sorted)])
    ELSE Append(sorted, g)

RECURSIVE SortGroups(_)
SortGroups(groups) ==
    IF groups = <<>> THEN <<>>
    ELSE InsertSorted(SortGroups(SubSeq(groups, 1, Len(groups) - 1)), groups[Len(groups)])

NoMode == [present |-> FALSE, groups |-> <<>>, current_group_index |-> 0]

\* DuplicatesMode.__init__
DuplicatesMode(duplicates) ==
    [present |-> TRUE,
     groups |-> SortGroups([i \in 1..Len(duplicates) |->
                    DuplicateGroup(duplicates[i].category, duplicates[i].indices)]),
     current_group_index |-> 0]

\* DuplicatesMode.current_group (HasCurrentGroup is "current_group is not None")
HasCurrentGroup(dm) ==
    0 <= dm.current_group_index /\ dm.current_group_index < Len(dm.groups)

current_group(dm) == dm.groups[dm.current_group_index + 1]

\* DuplicatesMode.selected_groups, as positions in the group list
selected_groups(dm) == {i \in 1..Len(dm.groups) : dm.groups[i].selected}

\* "self.selected_groups or [self.current_group] if self.current_group else []"
groups_to_process(dm) ==
    IF selected_groups(dm) # {} THEN selected_groups(dm)
    ELSE IF HasCurrentGroup(dm) THEN {dm.current_group_index + 1}
    ELSE {}

\* DuplicatesMode._move_cursor_to_current: the new cursor position
move_cursor_to_current(dm, txt, cursor) ==
    IF ~HasCurrentGroup(dm) THEN cursor
    ELSE LET result_index == current_result_index(current_group(dm)) IN
         IF result_index < 0 THEN cursor
         ELSE LET tokens == tokenize(txt) IN
              IF result_index < Len(tokens) THEN tokens[result_index + 1].start ELSE cursor

\* Python's % on a positive modulus
Mod(a, n) == a % n

\* a move that stops at the ends of the group instead of wrapping
move_within_clamped(dm, step) ==
    IF HasCurrentGroup(dm) /\ current_group(dm).indices # <<>>
    THEN LET g == current_group(dm) IN
         [dm EXCEPT !.groups[dm.current_group_index + 1].current_index =
                        Max(0, Min(g.current_index + step, Len(g.indices) - 1))]
    ELSE dm

\* DuplicatesMode.move_next / move_prev: the mode after the move
move_within(dm, step) ==
    IF HasCurrentGroup(dm) /\ current_group(dm).indices # <<>>
    THEN LET g == current_group(dm) IN
         [dm EXCEPT !.groups[dm.current_group_index + 1].current_index =
                        Mod(g.current_index + step, Len(g.indices))]
    ELSE dm

move_next(dm) == move_within(dm, 1)

move_prev(dm) == move_within(dm, 0 - 1)

\* DuplicatesMode.next_group / prev_group
rotate_group(dm, step) ==
    IF dm.groups # <<>>
    THEN [dm EXCEPT !.current_group_index = Mod(dm.current_group_index + step, Len(dm.groups))]
    ELSE dm

next_group(dm) == rotate_group(dm, 1)

prev_group(dm) == rotate_group(dm, 0 - 1)

\* DuplicatesMode.select_group / deselect_group
set_current_selected(dm, b) ==
    IF HasCurrentGroup(dm)
    THEN [dm EXCEPT !.groups[dm.current_group_index + 1].selected = b]
    ELSE dm

select_group(dm) == set_current_selected(dm, TRUE)

deselect_group(dm) == set_current_selected(dm, FALSE)

\* DuplicatesMode.select_all / deselect_all
set_all_selected(dm, b) ==
    [dm EXCEPT !.groups = [i \in 1..Len(dm.groups) |-> [dm.groups[i] EXCEPT !.selected = b]]]

select_all(dm) == set_all_selected(dm, TRUE)

deselect_all(dm) == set_all_selected(dm, FALSE)

IndexSet(seq) == {seq[i] : i \in 1..Len(seq)}

\* the sequence seq without the positions (0-based) in drop
RECURSIVE Without(_, _, _)
Without(seq, drop, i) ==
    IF i > Len(seq) THEN <<>>
    ELSE (IF (i - 1) \in drop THEN <<>> ELSE <<seq[i]>>) \o Without(seq, drop, i + 1)

\* a rebuild that carries the selection bits over by position in the group
\* list instead of by category name
refresh_duplicates_by_position(dm, txt) ==
    LET results == match_tokens(tokenize(txt))
        duplicates == find_duplicates(results)
        sorted == SortGroups([i \in 1..Len(duplicates) |->
                     DuplicateGroup(duplicates[i].category, duplicates[i].indices)])
        groups == [j \in 1..Len(sorted) |->
                     [sorted[j] EXCEPT !.selected =
                          j <= Len(dm.groups) /\ dm.groups[j].selected]]
    IN [present |-> TRUE,
        groups |-> groups,
        current_group_index |->
            IF dm.current_group_index >= Len(groups)
            THEN Max(0, Len(groups) - 1)
            ELSE dm.current_group_index]

\* a rebuild that leaves the current-group pointer where it was
refresh_duplicates_unclamped(dm, txt) ==
    LET results == match_tokens(tokenize(txt))
        duplicates == find_duplicates(results)
        old_selected == {dm.groups[i].category : i \in selected_groups(dm)}
        groups == SortGroups([i \in 1..Len(duplicates) |->
                     [DuplicateGroup(duplicates[i].category, duplicates[i].indices)
                          EXCEPT !.selected = duplicates[i].category \in old_selected]])
    IN [present |-> TRUE,
        groups |-> groups,
        current_group_index |-> dm.current_group_index]

\* DuplicatesMode._refresh_duplicates: the mode rebuilt over the buffer text txt
refresh_duplicates(dm, txt) ==
    LET results == match_tokens(tokenize(txt))
        duplicates == find_duplicates(results)
        old_selected == {dm.groups[i].category : i \in selected_groups(dm)}
        groups == SortGroups([i \in 1..Len(duplicates) |->
                     [DuplicateGroup(duplicates[i].category, duplicates[i].indices)
                          EXCEPT !.selected = duplicates[i].category \in old_selected]])
    IN [present |-> TRUE,
        groups |-> groups,
        current_group_index |->
            IF dm.current_group_index >= Len(groups)
            THEN Max(0, Len(groups) - 1)
            ELSE dm.current_group_index]

\* a deletion that joins the unquoted values of the tokens, not their raw texts
delete_indices_values(dm, txt, indices) ==
    IF indices = {} THEN [text |-> txt, dm |-> dm]
    ELSE LET tokens == tokenize(txt)
             new_parts == Without([i \in 1..Len(tokens) |-> tokens[i].value], indices, 1)
             new_text == Join(<<SP>>, new_parts)
         IN [text |-> new_text, dm |-> refresh_duplicates(dm, new_text)]

\* a deletion that leaves the groups as they were, without rebuilding them
delete_indices_stale(dm, txt, indices) ==
    IF indices = {} THEN [text |-> txt, dm |-> dm]
    ELSE LET tokens == tokenize(txt)
             new_parts == Without(Raws(tokens), indices, 1)
         IN [text |-> Join(<<SP>>, new_parts), dm |-> dm]

\* DuplicatesMode._delete_indices: the buffer text and the mode after deleting
delete_indices(dm, txt, indices) ==
    IF indices = {} THEN [text |-> txt, dm |-> dm]
    ELSE LET tokens == tokenize(txt)
             new_parts == Without(Raws(tokens), indices, 1)
             new_text == Join(<<SP>>, new_parts)
         IN [text |-> new_text, dm |-> refresh_duplicates(dm, new_text)]

\* a keep_current that always processes the current group, selected or not
keep_current_indices_with_current(dm) ==
    UNION {IndexSet(dm.groups[i].indices) \ {current_result_index(dm.groups[i])} :
              i \in selected_groups(dm) \cup
                    (IF HasCurrentGroup(dm) THEN {dm.current_group_index + 1} ELSE {})}

\* DuplicatesMode.keep_current: the index set it deletes
keep_current_indices(dm) ==
    UNION {IndexSet(dm.groups[i].indices) \ {current_result_index(dm.groups[i])} :
              i \in groups_to_process(dm)}

keep_current(dm, txt) == delete_indices(dm, txt, keep_current_indices(dm))

\* a keep_first that deletes one index of each group, the second, at a time
keep_first_indices_one(dm) ==
    UNION {{dm.groups[i].indices[2]} :
              i \in {j \in groups_to_process(dm) : Len(dm.groups[j].indices) >= 2}}

\* a keep_first that keeps the last index of each group instead of the first
keep_last_indices(dm) ==
    UNION {IndexSet(SubSeq(dm.groups[i].indices, 1, Len(dm.groups[i].indices) - 1)) :
              i \in {j \in groups_to_process(dm) : dm.groups[j].indices # <<>>}}

\* DuplicatesMode.keep_first: the index set it deletes
keep_first_indices(dm) ==
    UNION {IndexSet(Tail(dm.groups[i].indices)) :
              i \in {j \in groups_to_process(dm) : dm.groups[j].indices # <<>>}}

keep_first(dm, txt) == delete_indices(dm, txt, keep_first_indices(dm))

\* list.remove(x): without the first occurrence of x
RECURSIVE ListRemove(_, _)
ListRemove(seq, x) ==
    IF seq = <<>> THEN <<>>
    ELSE IF Head(seq) = x THEN Tail(seq) ELSE <<Head(seq)>> \o ListRemove(Tail(seq), x)

\* a delete_current that removes the first member of the current group,
\* whichever member is current
delete_first_of_current(dm, txt) ==
    IF ~HasCurrentGroup(dm) \/ Len(current_group(dm).indices) <= 1
    THEN [text |-> txt, dm |-> dm]
    ELSE delete_indices(dm, txt, {current_group(dm).indices[1]})

\* a delete_current that guards only against an empty group and relies on its
\* own update of the group, without the rebuild
delete_current_unguarded(dm, txt) ==
    IF ~HasCurrentGroup(dm) \/ current_group(dm).indices = <<>>
    THEN [text |-> txt, dm |-> dm]
    ELSE LET g == current_group(dm)
             idx_to_delete == current_result_index(g)
             indices == ListRemove(g.indices, idx_to_delete)
             adjusted == [g EXCEPT !.indices = indices,
                                   !.current_index = IF g.current_index >= Len(indices)
                                                     THEN Max(0, Len(indices) - 1)
                                                     ELSE g.current_index]
             dm1 == [dm EXCEPT !.groups[dm.current_group_index + 1] = adjusted]
         IN [text |-> Join(<<SP>>, Without(Raws(tokenize(txt)), {idx_to_delete}, 1)),
             dm |-> dm1]

\* DuplicatesMode.delete_current
delete_current(dm, txt) ==
    IF ~HasCurrentGroup(dm) \/ Len(current_group(dm).indices) <= 1
    THEN [text |-> txt, dm |-> dm]
    ELSE LET g == current_group(dm)
             idx_to_delete == current_result_index(g)
             indices == ListRemove(g.indices, idx_to_delete)
             adjusted == [g EXCEPT !.indices = indices,
                                   !.current_index = IF g.current_index >= Len(indices)
                                                     THEN Len(indices) - 1
                                                     ELSE g.current_index]
             dm1 == [dm EXCEPT !.groups[dm.current_group_index + 1] = adjusted]
         IN delete_indices(dm1, txt, {idx_to_delete})

---------------------------------------------------------------------------
(* editor/lexer.py *)

\* a styled run: the style is the category's class (color 0) or the color picked
\* for a capture group (color k > 0 is the k-th color of the category)
Run(category, color, txt) == [category |-> category, color |-> color, text |-> txt]

\* sorted(groups, key=start), stable
RECURSIVE InsertByStart(_, _)
InsertByStart(sorted, g) ==
    IF sorted = <<>> THEN <<g>>
    ELSE IF g.start < sorted[Len(sorted)].start
    THEN Append(InsertByStart(SubSeq(sorted, 1, Len(sorted) - 1), g), sorted[Len(sorted)])
    ELSE Append(sorted, g)

RECURSIVE SortByStart(_)
SortByStart(groups) ==
    IF groups = <<>> THEN <<>>
    ELSE InsertByStart(SortByStart(SubSeq(groups, 1, Len(groups) - 1)), groups[Len(groups)])

\* the loop of CommandLineLexer._style_groups over the sorted groups
RECURSIVE StyleGroupsLoop(_, _, _, _, _, _, _)
StyleGroupsLoop(token_value, sorted_groups, ncolors, category, i, last_pos, acc) ==
    IF i > Len(sorted_groups)
    THEN IF last_pos < Len(token_value)
         THEN Append(acc, Run(category, 0, Slice(token_value, last_pos, Len(token_value))))
         ELSE acc
    ELSE LET group == sorted_groups[i]
             withPrefix == IF group.start > last_pos
                           THEN Append(acc, Run(category, 0,
                                                Slice(token_value, last_pos, group.start)))
                           ELSE acc
         IN StyleGroupsLoop(token_value, sorted_groups, ncolors, category, i + 1, group.end,
                Append(withPrefix, Run(category, 1 + Min(i - 1, ncolors - 1), group.value)))

\* CommandLineLexer._style_groups
style_groups(token_value, groups, ncolors, category) ==
    StyleGroupsLoop(token_value, SortByStart(groups), ncolors, category, 1, 0, <<>>)

\* the loop of CommandLineLexer._style_results over the match results
RECURSIVE StyleResultsLoop(_, _, _, _, _, _, _)
StyleResultsLoop(results, original_text, off, off_category, i, last_end, acc) ==
    IF i > Len(results)
    THEN IF last_end < Len(original_text)
         THEN Append(acc, Run("", 0, Slice(original_text, last_end, Len(original_text))))
         ELSE acc
    ELSE LET result == results[i]
             token == result.token
             withSpace == IF token.start > last_end
                          THEN Append(acc, Run("", 0,
                                               Slice(original_text, last_end, token.start)))
                          ELSE acc
             category == IF off /\ off_category # "None"
                            /\ Lower(result.category) # Lower(off_category)
                         THEN "ui:lights-off-dim"
                         ELSE result.category
             ncolors == IF CategoryColors(Lower(category)) > 0
                        THEN CategoryColors(Lower(category))
                        ELSE 1
             token_styled == IF result.groups # <<>>
                             THEN style_groups(token.value, result.groups, ncolors, category)
                             ELSE <<Run(category, 0, token.raw)>>
         IN StyleResultsLoop(results, original_text, off, off_category, i + 1, token.end,
                             withSpace \o token_styled)

\* CommandLineLexer._style_results
style_results(results, original_text, off, off_category) ==
    StyleResultsLoop(results, original_text, off, off_category, 1, 0, <<>>)

\* the text parts of the styled runs, concatenated
RunsText(runs) == Flatten([i \in 1..Len(runs) |-> runs[i].text])

---------------------------------------------------------------------------
(* The editor: editor/prompt.py and the commands of editor/commands.py *)

\* the token texts the initial command lines of the editing sessions are made of:
\* an executable, two include flags (one of them quoted) and a library flag
W_cc == <<"c", "c">>
W_Ia == <<"-", "I", "a">>
W_Ib == <<DQ, "-", "I", SP, "b", DQ>>
W_Lc == <<"-", "L", "c">>

\* the command line 'gcc -I/a -I/b -I/c'
W_gcc == <<"g", "c", "c">>
W_Ipa == <<"-", "I", "/", "a">>
W_Ipb == <<"-", "I", "/", "b">>
W_Ipc == <<"-", "I", "/", "c">>

GccLine == Join(<<SP>>, <<W_gcc, W_Ipa, W_Ipb, W_Ipc>>)

\* a command line with two interleaved groups of more than two members
LongLine == Join(<<SP>>, <<W_cc, W_Ia, W_Lc, W_Ib, W_Lc, W_Ia, W_Lc>>)

Words == {W_Ia, W_Ib, W_Lc}

\* command lines with irregular spacing, adjacent quoted tokens, an escaped
\* space and an unterminated quote
SeedLines == {
    GccLine,
    LongLine,
    <<SP>> \o W_cc \o <<SP, SP>> \o W_Ia \o <<TAB>> \o W_Ib \o <<SP, TAB>> \o W_Ia \o <<SP>>,
    W_cc \o <<SP>> \o W_Ib \o W_Ia \o <<SP>> \o W_Lc \o <<SP, SP>> \o W_Lc,
    W_cc \o <<SP>> \o <<"-", "I", BS, SP, "a">> \o <<SP>> \o W_Ia \o <<SP>> \o W_Ia,
    W_cc \o <<SP>> \o W_Ia \o <<SP>> \o W_Lc \o <<SP>> \o <<DQ, "-", "I", SP, "a">> }

\* the characters the texts given to the styler are made of
Alphabet == {"-", "I", "a", SP, DQ, BS}

Strings(n) == UNION {[1..k -> Alphabet] : k \in 0..n}

\* the executable followed by up to MaxFlags flags, single-spaced
CommandLines ==
    {<<>>} \cup SeedLines \cup
    UNION {{Join(<<SP>>, <<W_cc>> \o ws) : ws \in [1..n -> Words]} : n \in 0..MaxFlags}

\* CommandLineEditor.__init__ on a command line
InitEditor(config, command_line) ==
    /\ text = command_line
    /\ cursor_position = Len(command_line)
    /\ mode = "normal"
    /\ duplicates_mode = NoMode
    /\ executable = (IF tokenize(command_line) # <<>>
                     THEN tokenize(command_line)[1].value ELSE <<>>)
    /\ matcher = Matcher(config, executable)
    /\ lights_off = FALSE
    /\ lights_off_category = "None"
    /\ styled = <<>>
    /\ returned = <<>>
    /\ op = "init"

Init == \E command_line \in CommandLines : InitEditor(DefaultConfig, command_line)

\* the commands whose name the history keeps; any other command is kept as "other"
Recorded == {"duplicates-keep", "duplicates-delete", "duplicates-first",
             "duplicate-next", "duplicate-prev", "lex", "lights-off"}

Record(name) == op' = IF name \in Recorded THEN name ELSE "other"

LexerUnchanged ==
    UNCHANGED <<executable, matcher, lights_off, lights_off_category, styled, returned>>

\* show-duplicates: CommandLineEditor.enter_duplicates_mode
ShowDuplicates ==
    LET duplicates == find_duplicates(match_tokens(tokenize(text))) IN
    /\ IF duplicates = <<>>
       THEN UNCHANGED <<duplicates_mode, mode>>
       ELSE /\ duplicates_mode' = DuplicatesMode(duplicates)
            /\ mode' = "duplicates"
    /\ Record("show-duplicates")
    /\ UNCHANGED <<text, cursor_position>>
    /\ LexerUnchanged

\* a variant of duplicates-exit that leaves the DuplicatesMode attached
DuplicatesExit_keeps_mode ==
    /\ mode' = "normal"
    /\ Record("duplicates-exit")
    /\ UNCHANGED <<duplicates_mode, text, cursor_position>>
    /\ LexerUnchanged

\* duplicates-exit: CommandLineEditor.exit_duplicates_mode
DuplicatesExit ==
    /\ duplicates_mode' = NoMode
    /\ mode' = "normal"
    /\ Record("duplicates-exit")
    /\ UNCHANGED <<text, cursor_position>>
    /\ LexerUnchanged

\* a navigation command: dm is the mode it leaves, and the cursor follows the
\* current duplicate when the command's guard (moves) let it act
Navigate(name, dm, moves) ==
    /\ IF duplicates_mode.present
       THEN /\ duplicates_mode' = dm
            /\ cursor_position' = IF moves
                                  THEN move_cursor_to_current(dm, text, cursor_position)
                                  ELSE cursor_position
       ELSE UNCHANGED <<duplicates_mode, cursor_position>>
    /\ Record(name)
    /\ UNCHANGED <<text, mode>>
    /\ LexerUnchanged

\* "if group and group.indices" of move_next / move_prev
CanMove(dm) == HasCurrentGroup(dm) /\ current_group(dm).indices # <<>>

DuplicateNext ==
    Navigate("duplicate-next", move_next(duplicates_mode), CanMove(duplicates_mode))

DuplicatePrev ==
    Navigate("duplicate-prev", move_prev(duplicates_mode), CanMove(duplicates_mode))

DuplicateNextGroup ==
    Navigate("duplicate-next-group", next_group(duplicates_mode),
             duplicates_mode.groups # <<>>)

DuplicatePreviousGroup ==
    Navigate("duplicate-previous-group", prev_group(duplicates_mode),
             duplicates_mode.groups # <<>>)

\* a selection command: only the selection bits change
Select(name, dm) ==
    /\ IF duplicates_mode.present
       THEN duplicates_mode' = dm
       ELSE UNCHANGED duplicates_mode
    /\ Record(name)
    /\ UNCHANGED <<text, cursor_position, mode>>
    /\ LexerUnchanged

DuplicateSelect == Select("duplicate-select", select_group(duplicates_mode))

DuplicateDeselect == Select("duplicate-deselect", deselect_group(duplicates_mode))

DuplicateAll == Select("duplicate-all", select_all(duplicates_mode))

DuplicateNone == Select("duplicate-none", deselect_all(duplicates_mode))

\* a mutation command that leaves duplicates mode once no group is left
Mutate_until_empty(name, r) ==
    /\ IF duplicates_mode.present
       THEN /\ duplicates_mode' = (IF r.dm.groups = <<>> THEN NoMode ELSE r.dm)
            /\ mode' = (IF r.dm.groups = <<>> THEN "normal" ELSE mode)
            /\ text' = r.text
            /\ cursor_position' = Min(cursor_position, Len(r.text))
       ELSE UNCHANGED <<duplicates_mode, mode, text, cursor_position>>
    /\ Record(name)
    /\ LexerUnchanged

\* a mutation command: r is the text and the mode it leaves; assigning
\* buffer.text keeps the cursor within the new text
Mutate(name, r) ==
    /\ IF duplicates_mode.present
       THEN /\ duplicates_mode' = r.dm
            /\ text' = r.text
            /\ cursor_position' = Min(cursor_position, Len(r.text))
       ELSE UNCHANGED <<duplicates_mode, text, cursor_position>>
    /\ Record(name)
    /\ UNCHANGED mode
    /\ LexerUnchanged

DuplicatesKeep == Mutate("duplicates-keep", keep_current(duplicates_mode, text))

DuplicatesDelete == Mutate("duplicates-delete", delete_current(duplicates_mode, text))

DuplicatesFirst == Mutate("duplicates-first", keep_first(duplicates_mode, text))

Next ==
    \/ ShowDuplicates
    \/ DuplicatesExit
    \/ DuplicateNext
    \/ DuplicatePrev
    \/ DuplicateNextGroup
    \/ DuplicatePreviousGroup
    \/ DuplicateSelect
    \/ DuplicateDeselect
    \/ DuplicateAll
    \/ DuplicateNone
    \/ DuplicatesKeep
    \/ DuplicatesDelete
    \/ DuplicatesFirst

Spec == Init /\ [][Next]_vars

---------------------------------------------------------------------------
(* The styler on its own: any buffer text over Alphabet, rendered by lex_document *)

InitLexer == \E command_line \in Strings(MaxLen) : InitEditor(DefaultConfig, command_line)

\* CommandLineLexer.lex_document
LexDocument ==
    LET tokens == tokenize(text) IN
    /\ matcher' = IF executable = <<>> /\ tokens # <<>>
                  THEN Matcher(ConfigNamed(matcher.config), tokens[1].value)
                  ELSE matcher
    /\ styled' = style_results(MatcherMatchTokens(matcher', tokens), text, lights_off,
                               lights_off_category)
    /\ Record("lex")
    /\ UNCHANGED <<text, cursor_position, mode, duplicates_mode, executable, lights_off,
                   lights_off_category, returned>>

\* a variant of toggle_lights_off that never turns lights-off off
toggle_lights_off_on(on, current, category) ==
    [lights_off |-> TRUE, lights_off_category |-> category]

\* CommandLineLexer.toggle_lights_off on a lexer whose lights-off state is
\* (on, current)
toggle_lights_off(on, current, category) ==
    IF on /\ current = category
    THEN [lights_off |-> FALSE, lights_off_category |-> "None"]
    ELSE [lights_off |-> TRUE, lights_off_category |-> category]

\* lights-off [category]
LightsOff(category) ==
    /\ lights_off' = toggle_lights_off(lights_off, lights_off_category, category).lights_off
    /\ lights_off_category' =
           toggle_lights_off(lights_off, lights_off_category, category).lights_off_category
    /\ Record("lights-off")
    /\ UNCHANGED <<text, cursor_position, mode, duplicates_mode, executable, matcher,
                   styled, returned>>

NextLexer ==
    \/ LexDocument
    \/ \E category \in {"None", "Includes"} : LightsOff(category)

SpecLexer == InitLexer /\ [][NextLexer]_vars


---------------------------------------------------------------------------
(* The tokenizer on its own: tokenize and detokenize called on any text over
   CoreAlphabet *)

\* an ordinary character, the two separators, the two quotes and the escape
CoreAlphabet == {"a", SP, TAB, DQ, SQ, BS}

Texts(n) == UNION {[1..k -> CoreAlphabet] : k \in 0..n}

InitTokenizer == \E s \in Texts(MaxLen) : InitEditor(DefaultConfig, s)

EditorUnchanged ==
    UNCHANGED <<text, cursor_position, mode, duplicates_mode, executable, matcher,
                lights_off, lights_off_category, styled>>

\* tokens = tokenize(text)
Tokenize ==
    /\ returned' = tokenize(text)
    /\ op' = "tokenize"
    /\ EditorUnchanged

\* detokenize(tokens), on the tokens the last call of tokenize returned
Detokenize ==
    /\ op = "tokenize"
    /\ returned' = detokenize(returned)
    /\ op' = "detokenize"
    /\ EditorUnchanged

NextTokenizer ==
    \/ Tokenize
    \/ Detokenize

SpecTokenizer == InitTokenizer /\ [][NextTokenizer]_vars

---------------------------------------------------------------------------
(* An editing session under a configuration with a programs section: the user
   edits the buffer and the lexer sweeps it *)

W_ls == <<"l", "s">>
W_time == <<"t", "i", "m", "e">>
W_march == <<"-", "m", "a", "r", "c", "h", "=", "a">>

SessionLines == {
    <<>>,
    W_gcc,
    W_ls,
    Join(<<SP>>, <<W_gcc, W_march>>),
    Join(<<SP>>, <<W_ls, W_march>>),
    Join(<<SP>>, <<W_gcc, W_Ia, W_march>>),
    Join(<<SP>>, <<W_time, W_gcc, W_march>>),
    Join(<<SP>>, <<W_time, W_ls, W_march>>) }

InitSession == \E command_line \in SessionLines : InitEditor(ProgramsConfig, command_line)

\* the user edits the buffer: any other line, the cursor at its end
EditBuffer ==
    /\ \E line \in SessionLines \ {text} :
          /\ text' = line
          /\ cursor_position' = Len(line)
    /\ Record("edit")
    /\ UNCHANGED <<mode, duplicates_mode>>
    /\ LexerUnchanged

NextSession ==
    \/ EditBuffer
    \/ LexDocument

SpecSession == InitSession /\ [][NextSession]_vars

---------------------------------------------------------------------------
(* Lights-off in a session: the command toggles it with no category or with
   one of two categories, and the lexer sweeps the buffer *)

LightsCategories == {"None", "Includes", "Libraries"}

NextLights ==
    \/ \E category \in LightsCategories : LightsOff(category)
    \/ LexDocument

SpecLights == InitSession /\ [][NextLights]_vars

---------------------------------------------------------------------------
(* The program detector on its own: find_compiler and parse_command_line
   called on the tokens of command lines of up to MaxWords words *)

\* two launchers (one with argument-taking flags, one given by path and in
\* upper case), a compiler, an unknown program and launcher-style flags
ProgramWords == {
    <<"t", "i", "m", "e">>,
    <<"/", "E", "n", "v">>,
    <<"g", "c", "c">>,
    <<"a">>,
    <<"-", "o">>,
    <<"-", "o", "=", "a">> }

ProgramLines ==
    UNION {{Join(<<SP>>, ws) : ws \in [1..n -> ProgramWords]} : n \in 0..MaxWords}

InitPrograms == \E command_line \in ProgramLines : InitEditor(DefaultConfig, command_line)

\* find_compiler(tokenize(text))
FindCompiler ==
    /\ returned' = find_compiler(tokenize(text))
    /\ op' = "find_compiler"
    /\ EditorUnchanged

\* parse_command_line(tokenize(text))
ParseCommandLine ==
    /\ returned' = parse_command_line(tokenize(text))
    /\ op' = "parse_command_line"
    /\ EditorUnchanged

NextPrograms ==
    \/ FindCompiler
    \/ ParseCommandLine

SpecPrograms == InitPrograms /\ [][NextPrograms]_vars

---------------------------------------------------------------------------
(* The matcher on its own: match_tokens called on the tokens of command lines
   of up to MaxWords words, by the matcher the editor built for the line *)

InitMatcher == \E command_line \in ProgramLines : InitEditor(ProgramsConfig, command_line)

\* editor.lexer.matcher.match_tokens(tokenize(text))
MatchTokens ==
    /\ returned' = MatcherMatchTokens(matcher, tokenize(text))
    /\ op' = "match_tokens"
    /\ EditorUnchanged

NextMatcher == MatchTokens

SpecMatcher == InitMatcher /\ [][NextMatcher]_vars

---------------------------------------------------------------------------
(* The duplicate finder on its own: find_duplicates called on the match
   results of command lines of up to MaxWords words, flags in first place
   and unmatched words included *)

FinderWords == {W_cc, W_Ia, W_Lc, <<"a">>}

FinderLines ==
    UNION {{Join(<<SP>>, ws) : ws \in [1..n -> FinderWords]} : n \in 0..MaxWords}

InitFinder == \E command_line \in FinderLines : InitEditor(DefaultConfig, command_line)

\* matcher.find_duplicates(matcher.match_tokens(tokenize(text)))
FindDuplicates ==
    /\ returned' = find_duplicates(MatcherMatchTokens(matcher, tokenize(text)))
    /\ op' = "find_duplicates"
    /\ EditorUnchanged

NextFinder == FindDuplicates

SpecFinder == InitFinder /\ [][NextFinder]_vars

---------------------------------------------------------------------------
(* validators/choice.py: MultipleChoiceValidator. A value is a string of
   characters; the delimiter is one character *)

\* str.strip()
RECURSIVE Strip(_)
Strip(s) ==
    IF s = <<>> THEN s
    ELSE IF IsSpaceChar(Head(s)) THEN Strip(Tail(s))
    ELSE IF IsSpaceChar(s[Len(s)]) THEN Strip(SubSeq(s, 1, Len(s) - 1))
    ELSE s

\* value.split(delimiter)
RECURSIVE Split(_, _)
Split(value, delimiter) ==
    LET at == {i \in 1..Len(value) : value[i] = delimiter} IN
    IF at = {} THEN <<value>>
    ELSE LET i == CHOOSE i \in at : \A j \in at : i <= j IN
         <<SubSeq(value, 1, i - 1)>> \o Split(SubSeq(value, i + 1, Len(value)), delimiter)

\* [p.strip() for p in value.split(self.delimiter)]
Parts(self, value) ==
    LET raw == Split(value, self.delimiter) IN [i \in 1..Len(raw) |-> Strip(raw[i])]

IsFirst(opt) == opt # <<>> /\ Head(opt) = "$"
IsLast(opt) == opt # <<>> /\ opt[Len(opt)] = "$"

\* the option without its constraint marks
Clean(opt) ==
    LET a == IF IsFirst(opt) THEN Tail(opt) ELSE opt IN
    IF IsLast(opt) THEN SubSeq(a, 1, Len(a) - 1) ELSE a

\* MultipleChoiceValidator.__init__ and _parse_constraints
MultipleChoiceValidator(options, delimiter, minimum, maximum) ==
    [options |-> options, delimiter |-> delimiter, minimum |-> minimum,
     maximum |-> maximum,
     clean_options |-> [i \in 1..Len(options) |-> Clean(options[i])],
     must_be_only |-> {Clean(options[i]) : i \in {j \in 1..Len(options) :
                          IsFirst(options[j]) /\ IsLast(options[j])}},
     must_be_first |-> {Clean(options[i]) : i \in {j \in 1..Len(options) :
                           IsFirst(options[j]) /\ ~IsLast(options[j])}},
     must_be_last |-> {Clean(options[i]) : i \in {j \in 1..Len(options) :
                          ~IsFirst(options[j]) /\ IsLast(options[j])}}]

InList(x, list) == \E i \in 1..Len(list) : list[i] = x

ValidatorResult(completions, valid) == [completions |-> completions, valid |-> valid]

\* MultipleChoiceValidator.get_completions: the completions
get_completions(self, current_value) ==
    LET current_parts == IF current_value # <<>> THEN Parts(self, current_value) ELSE <<>>
        has_selections == current_parts # <<>> /\ current_parts[1] # <<>>
        Available(opt) ==
            /\ ~InList(opt, current_parts)
            /\ has_selections =>
                   /\ opt \notin self.must_be_first
                   /\ opt \notin self.must_be_only
                   /\ current_parts[Len(current_parts)] \notin self.must_be_last
            /\ Len(current_parts) < self.maximum
    IN ValidatorResult(SelectSeq(self.clean_options, Available), TRUE)

\* MultipleChoiceValidator.validate
validate(self, value) ==
    LET parts == Parts(self, value)
        n == Len(parts)
    IN IF value = <<>> THEN ValidatorResult(<<>>, ~(self.minimum > 0))
       ELSE ValidatorResult(<<>>,
                /\ n >= self.minimum
                /\ n <= self.maximum
                /\ \A i \in 1..n : InList(parts[i], self.clean_options)
                /\ \A i \in 1..n :
                       /\ ~(parts[i] \in self.must_be_only /\ n > 1)
                       /\ ~(parts[i] \in self.must_be_first /\ i > 1)
                       /\ ~(parts[i] \in self.must_be_last /\ i < n))

\* MultipleChoiceValidator.cycle_next
cycle_next(self, current_value) ==
    LET result == get_completions(self, current_value) IN
    IF result.completions = <<>> THEN current_value
    ELSE IF current_value # <<>>
    THEN current_value \o <<self.delimiter>> \o result.completions[1]
    ELSE result.completions[1]

---------------------------------------------------------------------------
(* validators/warnings.py: WarningsValidator, given by its prefix *)

\* WarningsValidator.toggle
toggle(prefix, warning) ==
    IF StartsWith(warning, prefix)
    THEN SubSeq(warning, Len(prefix) + 1, Len(warning))
    ELSE prefix \o warning

---------------------------------------------------------------------------
(* The validators on their own, given the buffer text as the value *)

O_none == <<"n", "o", "n", "e">>
O_address == <<"a", "d", "d", "r", "e", "s", "s">>
O_undefined == <<"u", "n", "d", "e", "f", "i", "n", "e", "d">>
O_all == <<"a", "l", "l">>

\* the sanitizer options: none must be last, all must be the only one
ChoiceOptions == <<O_none \o <<"$">>, O_address, O_undefined, <<"$">> \o O_all \o <<"$">>>>

\* the validator with the default maximum and one that allows two selections
ChoiceValidators ==
    {MultipleChoiceValidator(ChoiceOptions, ",", 0, maximum) : maximum \in {2, 999}}

\* selections of up to MaxChoices parts, a part with a space before it included
ChoiceValues ==
    LET words == {O_none, O_address, O_undefined, O_all, <<SP>> \o O_none} IN
    UNION {{Join(<<",">>, ps) : ps \in [1..n -> words]} : n \in 0..MaxChoices}

\* warning names made of up to MaxChoices pieces
WarningValues ==
    LET pieces == {<<"n", "o", "-">>, <<"n", "o">>, <<"x">>} IN
    UNION {{Flatten(ps) : ps \in [1..n -> pieces]} : n \in 0..MaxChoices}

WarningPrefixes == {<<"n", "o", "-">>, <<"n", "o">>}

\* the buffer holds the value the validator is given
InitValidators ==
    \E value \in ChoiceValues \cup WarningValues : InitEditor(DefaultConfig, value)

\* a call of a validator on the buffer text
Call(name, self, result) ==
    /\ returned' = [self |-> self, result |-> result]
    /\ op' = name
    /\ EditorUnchanged

GetCompletions ==
    \E self \in ChoiceValidators : Call("get_completions", self, get_completions(self, text))

Validate ==
    \E self \in ChoiceValidators : Call("validate", self, validate(self, text))

CycleNext ==
    \E self \in ChoiceValidators : Call("cycle_next", self, cycle_next(self, text))

Toggle ==
    \E prefix \in WarningPrefixes : Call("toggle", prefix, toggle(prefix, text))

NextValidators ==
    \/ GetCompletions
    \/ Validate
    \/ CycleNext
    \/ Toggle

SpecValidators == InitValidators /\ [][NextValidators]_vars

---------------------------------------------------------------------------
(* core/color.py: styles and their composition *)

\* the attributes of a style other than its combine flag; "None" is an unset one
ColorAttributes ==
    {"fg", "bg", "bold", "dim", "italic", "underline", "blink", "reverse",
     "hidden", "strikethrough"}

\* ParsedColor with the attributes given in set, the others unset
ParsedColor(set, combine) ==
    [fg |-> IF "fg" \in DOMAIN set THEN set.fg ELSE "None",
     bg |-> IF "bg" \in DOMAIN set THEN set.bg ELSE "None",
     bold |-> IF "bold" \in DOMAIN set THEN set.bold ELSE "None",
     dim |-> IF "dim" \in DOMAIN set THEN set.dim ELSE "None",
     italic |-> IF "italic" \in DOMAIN set THEN set.italic ELSE "None",
     underline |-> IF "underline" \in DOMAIN set THEN set.underline ELSE "None",
     blink |-> IF "blink" \in DOMAIN set THEN set.blink ELSE "None",
     reverse |-> IF "reverse" \in DOMAIN set THEN set.reverse ELSE "None",
     hidden |-> IF "hidden" \in DOMAIN set THEN set.hidden ELSE "None",
     strikethrough |-> IF "strikethrough" \in DOMAIN set THEN set.strikethrough ELSE "None",
     combine |-> combine]

\* combine_colors: each attribute from the overlay when set there, else from
\* the base; the result is never a combining style
combine_colors(base, overlay) ==
    [a \in ColorAttributes \cup {"combine"} |->
        IF a = "combine" THEN FALSE
        ELSE IF overlay[a] # "None" THEN overlay[a] ELSE base[a]]

---------------------------------------------------------------------------
(* The color engine on its own *)

\* base styles: a foreground, a background and two toggles set or unset
BaseColors ==
    {ParsedColor([fg |-> fg, bg |-> bg, bold |-> bold, dim |-> dim], combine) :
        fg \in {"None", "red"}, bg \in {"None", "blue"},
        bold \in {"None", "True", "False"}, dim \in {"None", "True"},
        combine \in BOOLEAN}

\* overlays: the style with nothing set, and styles that set a foreground or a toggle
OverlayColors ==
    {ParsedColor([fg |-> fg, bold |-> bold], combine) :
        fg \in {"None", "green"}, bold \in {"None", "False"}, combine \in BOOLEAN}

empty_overlay == ParsedColor(<<>>, FALSE)

InitColor == InitEditor(DefaultConfig, <<>>)

CombineColors ==
    \E base \in BaseColors, overlay \in OverlayColors :
        /\ returned' = [base |-> base, overlay |-> overlay,
                        result |-> combine_colors(base, overlay)]
        /\ op' = "combine_colors"
        /\ EditorUnchanged

NextColor == CombineColors

SpecColor == InitColor /\ [][NextColor]_vars

---------------------------------------------------------------------------
(* Properties of duplicates mode.  A property of one command is an action
   property: it constrains every step that command takes, told by the name
   the step leaves in op. *)

Mutations == {"duplicates-keep", "duplicates-delete", "duplicates-first"}

\* the positions of the groups a keep command applies to: the selected
\* groups, or the current group alone when none is selected
Processed(dm) ==
    LET sel == {i \in 1..Len(dm.groups) : dm.groups[i].selected} IN
    IF sel # {} THEN sel
    ELSE IF dm.current_group_index < Len(dm.groups) THEN {dm.current_group_index + 1}
    ELSE {}

Lowest(indices) == CHOOSE m \in IndexSet(indices) : \A k \in IndexSet(indices) : m <= k

\* every index of the processed groups except each group's lowest
AllButLowest(dm) ==
    UNION {IndexSet(dm.groups[i].indices) \ {Lowest(dm.groups[i].indices)} :
              i \in Processed(dm)}

\* every index of the processed groups except each group's current one
AllButCurrent(dm) ==
    UNION {IndexSet(dm.groups[i].indices) \
              {dm.groups[i].indices[dm.groups[i].current_index + 1]} :
              i \in Processed(dm)}

\* the current index of the current group, when that group has two members or more
CurrentOnly(dm) ==
    IF dm.current_group_index < Len(dm.groups)
    THEN LET g == dm.groups[dm.current_group_index + 1] IN
         IF Len(g.indices) >= 2 THEN {g.indices[g.current_index + 1]} ELSE {}
    ELSE {}

\* the index set the mutation called name hands to the deletion procedure
DeletedSet(name, dm) ==
    CASE name = "duplicates-keep" -> AllButCurrent(dm)
      [] name = "duplicates-first" -> AllButLowest(dm)
      [] name = "duplicates-delete" -> CurrentOnly(dm)

\* the raw texts of the tokens of txt, in order, without the tokens at S
RawsWithout(txt, S) == Without(Raws(tokenize(txt)), S, 1)

\* the number of tokens of txt matched to the category
CountCategory(txt, category) ==
    LET results == match_tokens(tokenize(txt)) IN
    Cardinality({i \in 1..Len(results) : results[i].category = category})

\* C1: a duplicates-first step removes from the buffer exactly the tokens of
\* the processed groups (the selected ones, or the current one when none is
\* selected) other than each group's lowest index, and no other token; on
\* 'gcc -I/a -I/b -I/c' it leaves 'gcc -I/a'.
KeepFirstKeepsLowest ==
    [][(op' = "duplicates-first" /\ duplicates_mode.present) =>
           /\ Raws(tokenize(text')) = RawsWithout(text, AllButLowest(duplicates_mode))
           /\ (text = GccLine => text' = Join(<<SP>>, <<W_gcc, W_Ipa>>))]_vars

\* duplicates-first has pruned 'gcc -I/a -I/b -I/c' to 'gcc -I/a'
KeepFirstPruned ==
    /\ op = "duplicates-first"
    /\ duplicates_mode.present
    /\ text = Join(<<SP>>, <<W_gcc, W_Ipa>>)

\* C2: a duplicates-keep step removes from the buffer exactly the tokens of
\* the processed groups other than each group's own current index, and no
\* other token; when the current group is not selected and another group is,
\* the current group keeps all its tokens and all its indices.
KeepCurrentKeepsCurrent ==
    [][(op' = "duplicates-keep" /\ duplicates_mode.present) =>
           LET dm == duplicates_mode
               cur == dm.current_group_index + 1
           IN /\ Raws(tokenize(text')) = RawsWithout(text, AllButCurrent(dm))
              /\ (/\ cur <= Len(dm.groups)
                  /\ ~dm.groups[cur].selected
                  /\ \E i \in 1..Len(dm.groups) : dm.groups[i].selected)
                 => /\ CountCategory(text', dm.groups[cur].category)
                          = Len(dm.groups[cur].indices)
                    /\ \E j \in 1..Len(duplicates_mode'.groups) :
                          /\ duplicates_mode'.groups[j].category = dm.groups[cur].category
                          /\ Len(duplicates_mode'.groups[j].indices)
                                = Len(dm.groups[cur].indices)]_vars

\* duplicates-keep has kept the second of the three include flags
KeepCurrentKeptSecond ==
    /\ op = "duplicates-keep"
    /\ duplicates_mode.present
    /\ text = Join(<<SP>>, <<W_gcc, W_Ipb>>)

\* C3: a duplicates-delete step leaves the buffer text and the groups as
\* they are when there is no current group or the current group has at most
\* one index; otherwise it removes exactly one token, the one at the current
\* group's current index, and the category keeps at least one token.
DeleteCurrentKeepsLast ==
    [][(op' = "duplicates-delete" /\ duplicates_mode.present) =>
           LET dm == duplicates_mode
               cur == dm.current_group_index + 1
           IN IF cur > Len(dm.groups) \/ Len(dm.groups[cur].indices) <= 1
              THEN /\ text' = text
                   /\ duplicates_mode'.groups = dm.groups
              ELSE LET g == dm.groups[cur]
                       idx == g.indices[g.current_index + 1]
                   IN /\ Raws(tokenize(text')) = RawsWithout(text, {idx})
                      /\ Len(tokenize(text')) = Len(tokenize(text)) - 1
                      /\ CountCategory(text', g.category) = Len(g.indices) - 1
                      /\ CountCategory(text', g.category) >= 1]_vars

\* duplicates-delete has removed the second of the three include flags
DeleteCurrentRemovedSecond ==
    /\ op = "duplicates-delete"
    /\ duplicates_mode.present
    /\ text = Join(<<SP>>, <<W_gcc, W_Ipa, W_Ipc>>)

\* C4: a mutation step that deletes a non-empty index set S leaves as buffer
\* text the raw texts of the tokens not in S, in their order, joined by
\* single spaces; when S is empty the text and the groups stay as they are.
DeletionJoinsRaws ==
    [][(op' \in Mutations /\ duplicates_mode.present) =>
           LET S == DeletedSet(op', duplicates_mode) IN
           IF S # {}
           THEN text' = Join(<<SP>>, RawsWithout(text, S))
           ELSE /\ text' = text
                /\ duplicates_mode' = duplicates_mode]_vars

\* a deletion has left a quoted token in the buffer, quotes included
DeletionKeptQuotedRaw ==
    /\ op \in Mutations
    /\ duplicates_mode.present
    /\ text = Join(<<SP>>, <<W_cc, W_Ib, W_Ia>>)

\* C5: in duplicates mode every index of every group is an index into the
\* token list of the buffer text, and the token there is matched to the
\* group's category.
GroupIndicesValid ==
    duplicates_mode.present =>
        LET results == match_tokens(tokenize(text)) IN
        \A i \in 1..Len(duplicates_mode.groups) :
            \A k \in 1..Len(duplicates_mode.groups[i].indices) :
                LET idx == duplicates_mode.groups[i].indices[k] IN
                /\ 0 <= idx
                /\ idx < Len(results)
                /\ results[idx + 1].category = duplicates_mode.groups[i].category

\* after a deletion two groups are left, the second one's indices shifted
GroupsAfterDeletion ==
    /\ op = "duplicates-delete"
    /\ duplicates_mode.present
    /\ Len(duplicates_mode.groups) = 2
    /\ Len(tokenize(text)) = 6

\* C6: in duplicates mode every group of the group list has at least one index.
GroupsNonEmpty ==
    duplicates_mode.present =>
        \A i \in 1..Len(duplicates_mode.groups) :
            Len(duplicates_mode.groups[i].indices) >= 1

\* a group is left after duplicates-delete has run on it
GroupLeftAfterDelete ==
    /\ op = "duplicates-delete"
    /\ duplicates_mode.present
    /\ Len(duplicates_mode.groups) = 1
    /\ Len(duplicates_mode.groups[1].indices) = 2

\* C7: after a mutation step a group is selected if and only if a group of
\* the same category name was selected before the step.
SelectionPreservedByCategory ==
    [][(op' \in Mutations /\ duplicates_mode.present) =>
           \A j \in 1..Len(duplicates_mode'.groups) :
               duplicates_mode'.groups[j].selected <=>
                   \E i \in 1..Len(duplicates_mode.groups) :
                       /\ duplicates_mode.groups[i].selected
                       /\ duplicates_mode.groups[i].category
                              = duplicates_mode'.groups[j].category]_vars

\* a rebuild has left Libraries alone and selected, at the place Includes had
SelectionMovedWithCategory ==
    /\ op \in Mutations
    /\ duplicates_mode.present
    /\ Len(duplicates_mode.groups) = 1
    /\ duplicates_mode.groups[1].category = "Libraries"
    /\ duplicates_mode.groups[1].selected
    /\ CountCategory(text, "Includes") = 1

\* C8: a duplicates-delete step on a current group of n >= 3 indices whose
\* current_index was k leaves that group with current_index min(k, n - 2).
DeleteCurrentClampsIndex ==
    [][(/\ op' = "duplicates-delete"
        /\ duplicates_mode.present
        /\ duplicates_mode.current_group_index < Len(duplicates_mode.groups)
        /\ Len(current_group(duplicates_mode).indices) >= 3) =>
           LET g == current_group(duplicates_mode)
               n == Len(g.indices)
           IN \E j \in 1..Len(duplicates_mode'.groups) :
                  /\ duplicates_mode'.groups[j].category = g.category
                  /\ duplicates_mode'.groups[j].current_index
                         = Min(g.current_index, n - 2)]_vars

\* C9: a duplicate-next (duplicate-prev) step sets the current group's
\* current_index to current_index + 1 (- 1) modulo the number of its
\* indices, changes nothing else of the mode and nothing of the text, and
\* puts the cursor on the start of the token at the new current index;
\* without a current group it changes nothing.
MoveWrapsAndFollows ==
    [][(op' \in {"duplicate-next", "duplicate-prev"} /\ duplicates_mode.present) =>
           LET dm == duplicates_mode
               cur == dm.current_group_index + 1
           IN IF cur <= Len(dm.groups) /\ Len(dm.groups[cur].indices) > 0
              THEN LET g == dm.groups[cur]
                       n == Len(g.indices)
                       k == IF op' = "duplicate-next"
                            THEN IF g.current_index + 1 = n THEN 0 ELSE g.current_index + 1
                            ELSE IF g.current_index = 0 THEN n - 1 ELSE g.current_index - 1
                   IN /\ duplicates_mode' = [dm EXCEPT !.groups[cur].current_index = k]
                      /\ text' = text
                      /\ mode' = mode
                      /\ cursor_position' = tokenize(text)[g.indices[k + 1] + 1].start
              ELSE UNCHANGED <<duplicates_mode, text, mode, cursor_position>>]_vars

\* duplicate-prev has wrapped from the first member of a group of three to
\* the last, and the cursor is on that token
MovedBackToLast ==
    /\ op = "duplicate-prev"
    /\ duplicates_mode.present
    /\ duplicates_mode.current_group_index < Len(duplicates_mode.groups)
    /\ Len(current_group(duplicates_mode).indices) = 3
    /\ current_group(duplicates_mode).current_index = 2
    /\ cursor_position =
           tokenize(text)[current_group(duplicates_mode).indices[3] + 1].start

\* C10: after lex_document the text parts of the styled runs, concatenated,
\* are the buffer text.
StyledRunsCoverText == op = "lex" => RunsText(styled) = text


---------------------------------------------------------------------------
(* Properties of the tokenizer *)

IsSeparator(c) == c \in {SP, TAB}

\* the layout of the tokens of s: the lengths of the gap before the first
\* token, of the gaps between tokens and of the gap after the last token
LeadingGap(s) == IF tokenize(s) = <<>> THEN Len(s) ELSE tokenize(s)[1].start

InnerGaps(s) ==
    LET tokens == tokenize(s) IN
    {tokens[i + 1].start - tokens[i].end : i \in 1..(Len(tokens) - 1)}

TrailingGap(s) ==
    IF tokenize(s) = <<>> THEN 0 ELSE Len(s) - tokenize(s)[Len(tokenize(s))].end

\* s has no run of more than one separator and no trailing separator
Uncollapsed(s) ==
    /\ LeadingGap(s) <= 1
    /\ \A g \in InnerGaps(s) : g <= 1
    /\ TrailingGap(s) = 0
    /\ (s # <<>> => ~IsSeparator(s[Len(s)]))

\* the tokens of s are laid out from the start of s to its end with exactly
\* one space character between each token and the next
SingleSpaced(s) ==
    LET tokens == tokenize(s) IN
    /\ LeadingGap(s) = 0
    /\ TrailingGap(s) = 0
    /\ \A i \in 1..(Len(tokens) - 1) :
           /\ tokens[i + 1].start = tokens[i].end + 1
           /\ Ch(s, tokens[i].end) = SP

\* C11 as stated: for a text with no run of more than one separator and no
\* trailing separator, detokenize(tokenize(s)) = s.
RoundTripUncollapsed ==
    (op = "detokenize" /\ Uncollapsed(text)) => returned = text

\* C11: for a text whose tokens run from its start to its end with exactly
\* one space between each token and the next, detokenize(tokenize(s)) = s.
RoundTripSingleSpaced ==
    (op = "detokenize" /\ SingleSpaced(text)) => returned = text

\* a single-spaced text of two tokens, one of them quoted, has come back
RoundTripOfQuoted ==
    /\ op = "detokenize"
    /\ SingleSpaced(text)
    /\ Len(tokenize(text)) = 2
    /\ Contains(text, DQ)
    /\ returned = text

\* C12: for every token of tokenize(s), s[start:end] = raw.
PositionFidelity ==
    op = "tokenize" =>
        \A i \in 1..Len(returned) :
            Slice(text, returned[i].start, returned[i].end) = returned[i].raw

\* a quoted second token, whose raw text differs from its value
QuotedTokenLocated ==
    /\ op = "tokenize"
    /\ Len(returned) = 2
    /\ returned[2].start = 2
    /\ returned[2].quote_type = "DOUBLE"
    /\ returned[2].raw # returned[2].value

Count(s, c) == Cardinality({i \in 1..Len(s) : s[i] = c})

\* a raw token text that certainly holds an unterminated quote: no escape,
\* one kind of quote only, an odd number of them
UnclosedQuote(raw) ==
    /\ ~Contains(raw, BS)
    /\ \/ Count(raw, DQ) % 2 = 1 /\ ~Contains(raw, SQ)
       \/ Count(raw, SQ) % 2 = 1 /\ ~Contains(raw, DQ)

RECURSIVE FirstOpener(_, _)
FirstOpener(raw, pos) ==
    IF pos >= Len(raw) THEN ""
    ELSE IF Ch(raw, pos) = BS
    THEN IF pos + 1 < Len(raw) /\ Ch(raw, pos + 1) \in {SP, TAB, BS, SQ, DQ}
         THEN FirstOpener(raw, pos + 2)
         ELSE FirstOpener(raw, pos + 1)
    ELSE IF Ch(raw, pos) \in {DQ, SQ} THEN Ch(raw, pos)
    ELSE FirstOpener(raw, pos + 1)

\* C14: a token that starts unquoted and holds an embedded quoted run has
\* quote_type DOUBLE when the run was opened by a double quote and SINGLE
\* when it was opened by a single quote.
EmbeddedQuoteType ==
    op = "tokenize" =>
        \A i \in 1..Len(returned) :
            LET raw == returned[i].raw
                opener == FirstOpener(raw, 0)
            IN (raw[1] \notin {DQ, SQ} /\ opener # "") =>
                   returned[i].quote_type = (IF opener = DQ THEN "DOUBLE" ELSE "SINGLE")


---------------------------------------------------------------------------
(* Properties of the program detector *)

ValueAt(txt, i) == tokenize(txt)[i + 1].value

IsFlagValue(value) == StartsWith(value, <<"-">>)

\* the token at index i of txt names a launcher
LauncherAt(txt, i) ==
    i < Len(tokenize(txt)) /\ is_launcher(Basename(ValueAt(txt, i))) # 0

\* C15: a ProgramMatch of find_compiler with a launcher has
\* 0 <= launcher.token_index < launcher.args_end_index <= token_index < number
\* of tokens; one without a launcher has token_index = 0.
ProgramMatchIndices ==
    (op = "find_compiler" /\ returned.present) =>
        IF returned.launcher.present
        THEN /\ 0 <= returned.launcher.token_index
             /\ returned.launcher.token_index < returned.launcher.args_end_index
             /\ returned.launcher.args_end_index <= returned.token_index
             /\ returned.token_index < Len(tokenize(text))
        ELSE returned.token_index = 0

\* a program found at index 3 behind a launcher, a flag and the flag's argument
ProgramBehindLauncherArgs ==
    /\ op = "find_compiler"
    /\ returned.present
    /\ returned.launcher.present
    /\ returned.launcher.token_index = 0
    /\ returned.launcher.args_end_index = 3
    /\ returned.token_index = 3

\* the token indices from launcher.token_index + 1 to launcher.args_end_index - 1
LauncherArgRange == (returned.launcher.token_index + 1)..(returned.launcher.args_end_index - 1)

\* C16 as stated: when find_compiler reports a launcher, every token from
\* launcher.token_index + 1 to launcher.args_end_index - 1 starts with "-".
LauncherArgsAreFlags ==
    (op = "find_compiler" /\ returned.present /\ returned.launcher.present) =>
        \A k \in LauncherArgRange : IsFlagValue(ValueAt(text, k))

\* the argument-taking flags of the launcher called name
FlagsWithArgs(name) ==
    LET l == BUILTIN_LAUNCHERS[CHOOSE k \in 1..Len(BUILTIN_LAUNCHERS) :
                                  BUILTIN_LAUNCHERS[k].name = name]
    IN {l.flags_with_args[f] : f \in 1..Len(l.flags_with_args)}

\* C16: when find_compiler reports a launcher, every token from
\* launcher.token_index + 1 to launcher.args_end_index - 1 starts with "-" or
\* directly follows, within that range, a token that is one of the launcher's
\* argument-taking flags.
LauncherArgsAreFlagsOrValues ==
    (op = "find_compiler" /\ returned.present /\ returned.launcher.present) =>
        \A k \in LauncherArgRange :
            \/ IsFlagValue(ValueAt(text, k))
            \/ /\ k - 1 \in LauncherArgRange
               /\ ValueAt(text, k - 1) \in FlagsWithArgs(returned.launcher.name)

\* a launcher's range holds the value of one of its argument-taking flags
LauncherRangeHoldsValue ==
    /\ op = "find_compiler"
    /\ returned.present
    /\ returned.launcher.present
    /\ \E k \in LauncherArgRange : ~IsFlagValue(ValueAt(text, k))

\* C17: when token 0 is a launcher, the first token after its arguments is
\* reported as the program, with the launcher of index 0 as its launcher,
\* even when that token names a launcher itself.
LauncherPeeledOnce ==
    (op = "find_compiler" /\ LauncherAt(text, 0)) =>
        LET tokens == tokenize(text)
            first == SkipLauncherArgs(tokens, 1,
                         BUILTIN_LAUNCHERS[is_launcher(Basename(ValueAt(text, 0)))]
                             .flags_with_args)
        IN first < Len(tokens) =>
               /\ returned.present
               /\ returned.token_index = first
               /\ returned.launcher.present
               /\ returned.launcher.token_index = 0

Empty(range) == range[1] >= range[2]

\* C18: in the parts of parse_command_line the launcher range is non-empty
\* if and only if the command line has a launcher, that is, token 0 is one.
LauncherRangeIffLauncher ==
    op = "parse_command_line" => (~Empty(returned.launcher_range) <=> LauncherAt(text, 0))


---------------------------------------------------------------------------
(* Properties of the matcher in a session *)

\* the category the last sweep gave the token at index i
StyledCategory(i) == MatcherMatchTokens(matcher, tokenize(text))[i + 1].category

\* the lexer was built for gcc, the buffer now runs ls, and the sweep has
\* classified the flag of ls with the flags of gcc
StaleProgramFlags ==
    /\ op = "lex"
    /\ executable = W_gcc
    /\ text = Join(<<SP>>, <<W_ls, W_march>>)
    /\ StyledCategory(1) = "Architecture"

\* the buffer runs gcc behind a launcher and the sweep has not classified
\* the flag of gcc
WrappedProgramFlagsUnused ==
    /\ op = "lex"
    /\ text = Join(<<SP>>, <<W_time, W_gcc, W_march>>)
    /\ StyledCategory(2) = "Default"

\* C19: after every sweep of the lexer the flags its matcher classifies tokens
\* with are those of the program detected in the buffer text, the program
\* find_compiler finds after peeling a launcher.
SweepUsesDetectedProgram ==
    op = "lex" =>
        LET program == find_compiler(tokenize(text)) IN
        program.present =>
            MatcherFlags(matcher) =
                get_flags_for_program(ConfigNamed(matcher.config), program.canonical_name)


\* C20: match_tokens returns one result per token, in order; the result of
\* token 0 has category Executable, no flag, matched set and one group that
\* spans the whole token, whatever the patterns and the launchers say; no
\* later result has category Executable.
ExecutableIsFirstTokenOnly ==
    op = "match_tokens" =>
        LET tokens == tokenize(text) IN
        /\ Len(returned) = Len(tokens)
        /\ \A i \in 1..Len(tokens) : returned[i].token = tokens[i]
        /\ tokens # <<>> =>
               /\ returned[1].category = "Executable"
               /\ returned[1].flag = 0
               /\ returned[1].matched
               /\ returned[1].groups =
                      <<CaptureGroup(tokens[1].value, 0, Len(tokens[1].value), 0)>>
        /\ \A i \in 2..Len(tokens) : returned[i].category # "Executable"

\* a flag in first place is the executable, the same flag in second place is
\* matched by its pattern, and a launcher in third place is a plain token
FlagAsExecutable ==
    /\ op = "match_tokens"
    /\ Len(returned) = 3
    /\ match_token(returned[1].token).category = "Outputs"
    /\ returned[1].category = "Executable"
    /\ returned[2].category = "Outputs"
    /\ is_launcher(returned[3].token.value) # 0
    /\ returned[3].category = "Default"


---------------------------------------------------------------------------
(* Properties of the duplicate finder *)

\* the indices of the results a flag rule of the category has matched
RuleMatched(results, category) ==
    {i \in 0..(Len(results) - 1) :
        /\ results[i + 1].matched
        /\ results[i + 1].flag # 0
        /\ results[i + 1].category = category}

Ascending(indices) == \A a, b \in 1..Len(indices) : a < b => indices[a] < indices[b]

\* C21: find_duplicates has one entry for each category with two or more
\* results matched by a flag rule of that category and no other entry; the
\* entry lists exactly those indices in ascending order, so neither the
\* Executable token nor an unmatched token is listed.
DuplicatesByCategory ==
    op = "find_duplicates" =>
        LET results == MatcherMatchTokens(matcher, tokenize(text))
            categories == {results[i].category : i \in 1..Len(results)}
        IN /\ \A c \in categories :
                  Cardinality(RuleMatched(results, c)) >= 2 <=>
                      \E e \in 1..Len(returned) : returned[e].category = c
           /\ \A e \in 1..Len(returned) :
                  /\ returned[e].category \in categories
                  /\ Ascending(returned[e].indices)
                  /\ {returned[e].indices[k] : k \in 1..Len(returned[e].indices)} =
                         RuleMatched(results, returned[e].category)
                  /\ \A k \in 1..Len(returned[e].indices) :
                         /\ returned[e].indices[k] # 0
                         /\ results[returned[e].indices[k] + 1].category
                                \notin {"Executable", "Default"}
                  /\ \A f \in 1..Len(returned) :
                         returned[f].category = returned[e].category => f = e

\* one category with the indices 1 and 3: the same flag in first place is the
\* executable, the word at index 2 is unmatched
DuplicatesSkipExecutableAndDefault ==
    /\ op = "find_duplicates"
    /\ text = Join(<<SP>>, <<W_Ia, W_Ia, <<"a">>, W_Ia>>)
    /\ returned = <<[category |-> "Includes", indices |-> <<1, 3>>]>>


---------------------------------------------------------------------------
(* Properties of the modes of the editor *)

\* a step of one of the eleven duplicates-mode commands
DuplicatesCommand ==
    \/ DuplicatePrev
    \/ DuplicateNext
    \/ DuplicatePreviousGroup
    \/ DuplicateNextGroup
    \/ DuplicateSelect
    \/ DuplicateDeselect
    \/ DuplicateAll
    \/ DuplicateNone
    \/ DuplicatesKeep
    \/ DuplicatesDelete
    \/ DuplicatesFirst

\* C22: a duplicates-mode command executed in normal mode leaves the buffer
\* text, the cursor position and the mode unchanged.
NormalModeIgnoresDuplicatesCommands ==
    [][(mode = "normal" /\ DuplicatesCommand) =>
           UNCHANGED <<text, cursor_position, mode>>]_vars

\* duplicates-first has been executed in normal mode on a buffer that holds
\* duplicates, and the duplicates are still there
DuplicatesFirstIgnored ==
    /\ op = "duplicates-first"
    /\ mode = "normal"
    /\ ~duplicates_mode.present
    /\ find_duplicates(match_tokens(tokenize(text))) # <<>>


---------------------------------------------------------------------------
(* Properties of lights-off *)

LightsAreOff(on, category) == ~on /\ category = "None"

\* C23: a toggle with category c turns lights-off off and clears the category
\* when lights-off is on with c, and otherwise turns it on with c; a second
\* toggle with c after one from the off state gives the off state again.
ToggleLightsOff ==
    [][\A c \in LightsCategories :
          LightsOff(c) =>
              /\ IF lights_off /\ lights_off_category = c
                 THEN LightsAreOff(lights_off', lights_off_category')
                 ELSE lights_off' /\ lights_off_category' = c
              /\ LightsAreOff(lights_off, lights_off_category) =>
                     LET again == toggle_lights_off(lights_off', lights_off_category', c)
                     IN LightsAreOff(again.lights_off, again.lights_off_category)]_vars

\* a toggle has turned lights-off off in a session whose buffer has been swept
LightsToggledOff ==
    /\ op = "lights-off"
    /\ LightsAreOff(lights_off, lights_off_category)
    /\ styled # <<>>


---------------------------------------------------------------------------
(* Properties of the validators *)

Appended(self, value, completion) ==
    IF value = <<>> THEN completion ELSE value \o <<self.delimiter>> \o completion

\* C24: every completion of a selection that validate accepts gives, appended
\* to the selection, a selection that validate accepts; so does cycle_next.
CompletionsArePermissible ==
    /\ (op = "get_completions" /\ validate(returned.self, text).valid) =>
           \A i \in 1..Len(returned.result.completions) :
               validate(returned.self,
                        Appended(returned.self, text,
                                 returned.result.completions[i])).valid
    /\ (op = "cycle_next" /\ validate(returned.self, text).valid) =>
           validate(returned.self, returned.result).valid

\* C25: with the sanitizer options and the delimiter ",", the completions of
\* the empty selection are none, address, undefined, all in that order, and
\* the completions of the selection address hold neither all nor none.
SanitizerCompletions ==
    (op = "get_completions" /\ returned.self.options = ChoiceOptions
         /\ returned.self.delimiter = ",") =>
        /\ text = <<>> =>
               returned.result.completions = <<O_none, O_address, O_undefined, O_all>>
        /\ text = O_address =>
               /\ ~InList(O_all, returned.result.completions)
               /\ ~InList(O_none, returned.result.completions)

\* C26: toggling the result of a toggle gives the warning back.
ToggleTwiceIsIdentity ==
    op = "toggle" => toggle(returned.self, returned.result) = text

---------------------------------------------------------------------------
(* The color engine *)

\* C27: combining a base style with the overlay that sets nothing gives the
\* base style back, whatever the base sets and whatever its combine flag is.
CombineWithEmptyOverlay ==
    (op = "combine_colors" /\ returned.overlay = empty_overlay) =>
        returned.result = returned.base

---------------------------------------------------------------------------
(* The pointers and the mode of the editor *)

\* C28: in duplicates mode every group's current_index lies within the
\* group's indices, and the current-group pointer is 0 when there is no
\* group and lies within the group list otherwise; next_group and prev_group
\* move it to its successor and its predecessor modulo the group count.
PointersInRange ==
    /\ [](mode = "duplicates" =>
            /\ \A i \in 1..Len(duplicates_mode.groups) :
                   /\ 0 <= duplicates_mode.groups[i].current_index
                   /\ duplicates_mode.groups[i].current_index
                          < Len(duplicates_mode.groups[i].indices)
            /\ IF duplicates_mode.groups = <<>>
               THEN duplicates_mode.current_group_index = 0
               ELSE /\ 0 <= duplicates_mode.current_group_index
                    /\ duplicates_mode.current_group_index < Len(duplicates_mode.groups))
    /\ [][(mode = "duplicates" /\ duplicates_mode.groups # <<>>) =>
            /\ DuplicateNextGroup =>
                   duplicates_mode'.current_group_index =
                       (duplicates_mode.current_group_index + 1)
                           % Len(duplicates_mode.groups)
            /\ DuplicatePreviousGroup =>
                   duplicates_mode'.current_group_index =
                       (duplicates_mode.current_group_index + Len(duplicates_mode.groups) - 1)
                           % Len(duplicates_mode.groups)]_vars

\* a keep command has left one group, not selected, and the pointer on it
PointerOnOnlyGroupLeft ==
    /\ mode = "duplicates"
    /\ op = "duplicates-keep"
    /\ Len(duplicates_mode.groups) = 1
    /\ ~duplicates_mode.groups[1].selected
    /\ duplicates_mode.groups[1].category = "Includes"
    /\ duplicates_mode.current_group_index = 0

\* C29: the mode is "duplicates" exactly when a DuplicatesMode is attached;
\* normal mode is left, and a DuplicatesMode attached, by show-duplicates on
\* a buffer with duplicates alone, so that show-duplicates on a buffer
\* without any stays in normal mode with no DuplicatesMode; duplicates mode
\* is left by duplicates-exit alone, also
\* when a mutation has removed every group, and duplicates-exit gives normal
\* mode with no DuplicatesMode.
ModeIffDuplicatesMode ==
    /\ [](mode \in {"normal", "duplicates"})
    /\ [](mode = "duplicates" <=> duplicates_mode.present)
    /\ [][(mode = "normal" /\ (mode' # "normal" \/ duplicates_mode'.present)) =>
            (ShowDuplicates /\ find_duplicates(match_tokens(tokenize(text))) # <<>>)]_vars
    /\ [][(mode = "duplicates" /\ mode' # "duplicates") => DuplicatesExit]_vars
    /\ [][DuplicatesExit => (mode' = "normal" /\ ~duplicates_mode'.present)]_vars

\* the editor is in duplicates mode after a mutation that removed every group
DuplicatesModeWithoutGroups ==
    /\ mode = "duplicates"
    /\ duplicates_mode.present
    /\ duplicates_mode.groups = <<>>
    /\ op \in Mutations

\* C30: applying keep_first a second time leaves the buffer text that the
\* first application left, from every state of duplicates mode.
KeepFirstIdempotent ==
    (op = "duplicates-first" /\ duplicates_mode.present) =>
        keep_first(duplicates_mode, text).text = text

\* C30, amended: a second keep_first leaves the text of the first exactly
\* when the first processed every group, that is when every group was
\* selected or the current group was the only one.
KeepFirstTwiceWhenAllProcessed ==
    [][(op' = "duplicates-first" /\ duplicates_mode.present) =>
          (keep_first(duplicates_mode', text').text = text'
              <=> groups_to_process(duplicates_mode) = 1..Len(duplicates_mode.groups))]_vars

\* keep_first has processed every group of a buffer with two categories of flags
KeepFirstProcessedAll ==
    /\ op = "duplicates-first"
    /\ mode = "duplicates"
    /\ duplicates_mode.groups = <<>>
    /\ Len(tokenize(text)) = 3

=============================================================================
